---- MODULE Spec2Model ----
(***************************************************************************)
(* Veri-Charm: a model of the demo application (the appState ledger, the   *)
(* purchase modal with its timer callbacks, the burn lock) and of the      *)
(* Scrolls API client's privacy shield.                                    *)
(*                                                                         *)
(* Time is counted in days (Date.now() / 86400000).  Fields that are only  *)
(* rendered (icons, the formatted timestamp, retailer display names,       *)
(* certification texts) are left out of the token and transaction records. *)
(***************************************************************************)
EXTENDS Integers, Sequences, FiniteSets, TLC

(* ------------------------------ bounds --------------------------------- *)
\* Math.random() * 100 ranges over 1..100; the model draws from 1..MaxTokenNumber.
MaxTokenNumber == 2
\* transactions recorded at most (8 are seeded by loadInitialTransactions)
MaxTx == 13
\* last day the clock reaches
MaxNow == 28
\* timer callbacks pending at most
MaxTimers == 2

\* handlePurchase invocations at most
MaxPurchases == 2
\* entries in a supply-chain history at most
MaxHistory == 2
\* entries in each of the two histories whose disclosed views are compared
MaxViewHistory == 2
\* width of the circuit's comparator in the model: LessEqThan(64) and the
\* 254-bit scalar field are scaled down to LessEqThan(CmpBits) and FieldPrime
CmpBits == 3
\* wallets that detectWallet reports at most
MaxWallets == 3
\* the clock of the API client's cache is observed up to this many half-TTLs
MaxClock == 4

(* --------------------------- program data ------------------------------ *)
NULL == "null"

BurnLockDays == 14

InitialBalance == 200

ProductTypes == {"fragrance", "medication", "produce", "energy"}

productInfo ==
  [ fragrance  |-> [ name |-> "Eclat de Lune", price |-> 50,
                     retailerAddress |-> "0xU...rah5r",
                     supplierAddress |-> "addr1...RvT5",
                     tokenIdPrefix |-> "#LUX-",
                     category |-> "Luxury Fragrance" ],
    medication |-> [ name |-> "Amoxiclav-Duo", price |-> 10,
                     retailerAddress |-> "0xU...ph4rm",
                     supplierAddress |-> "addr1...Ph8K",
                     tokenIdPrefix |-> "#PH-",
                     category |-> "Sensitive Medication" ],
    produce    |-> [ name |-> "Royal Purple Eggplants", price |-> 5,
                     retailerAddress |-> "0xU...m4rkT",
                     supplierAddress |-> "addr1...Gr3F",
                     tokenIdPrefix |-> "#ORG-",
                     category |-> "Organic Produce" ],
    energy     |-> [ name |-> "EcoGrid Power Inverter", price |-> 150,
                     retailerAddress |-> "0xU...Gr3nT",
                     supplierAddress |-> "addr1...Ec0V",
                     tokenIdPrefix |-> "#ECO-",
                     category |-> "Renewable Energy Component" ] ]

\* the list literal of verifyRetailerAddress
trustedAddresses == {"0xU...rah5r", "0xU...ph4rm", "0xU...m4rkT", "0xU...Gr3nT"}

BuyerAddress == "bc1q...demo"

BurnAddress == "addr1...daf4w (Burn Address)"

\* what a user types into the retailer-address input: the retailer of another
\* category, and an address outside the directory (typed with blanks around)
RetailerInputs == {"0xU...ph4rm", " 0xU...f4k3 "}

\* the products whose Buy button the user presses
Catalogue == {"fragrance"}

\* the clock is observed once per lock period
TickDays == BurnLockDays

\* String.prototype.trim on the inputs above
Trim(s) == IF s = " 0xU...f4k3 " THEN "0xU...f4k3" ELSE s

\* tokenNumber.toString().padStart(3, '0')
PadStart3(n) ==
  IF n < 10 THEN "00" \o ToString(n)
  ELSE IF n < 100 THEN "0" \o ToString(n)
  ELSE ToString(n)

\* `${product.tokenIdPrefix}${tokenNumber.toString().padStart(3, '0')}`
TokenIdOf(p, n) == productInfo[p].tokenIdPrefix \o PadStart3(n)

TokenNumbers == 1..MaxTokenNumber

TokenIds == { TokenIdOf(p, n) : p \in Catalogue, n \in TokenNumbers }

\* the networks a wallet can be on, the accounts a wallet extension may hold,
\* and the callbacks the page may register with addWalletListener
Networks == {"mainnet", "testnet"}

Addresses == {"addr1", "addr2"}

Listeners == {"l1", "l2"}

\* no listener was called
NoCalls == [ l \in Listeners |-> [ called |-> FALSE ] ]

\* the constructor's this.cacheTTL, in milliseconds
cacheTTL == 60000

\* the clock is observed twice per TTL
ClockTick == cacheTTL \div 2

\* the cache keys of the calls made: `query_${JSON.stringify(query)}` and
\* `token_${tokenId}_${includeHistory}_${zkProof}`, as their parts
QueryKey(query) == << "query", query >>

TokenKey(tokenId, includeHistory, zkProof) ==
  << "token", tokenId, ToString(includeHistory), ToString(zkProof) >>

\* the queries and token ids the page asks for, and the bodies the server
\* answers with
Queries == {"{\"category\":\"fragrance\"}"}

CharmIds == {"LUX-001"}

CacheKeys ==
  { QueryKey(q) : q \in Queries }
  \cup { TokenKey(id, TRUE, zk) : id \in CharmIds, zk \in BOOLEAN }

ServerData == {"d1", "d2"}

(* ------------------------------ state ---------------------------------- *)
VARIABLES
  balance, currentProduct, transactionCounter, ownedTokens, transactions,
  privacyEnabled, purchaseInProgress,    \* appState
  domLoaded,                             \* DOMContentLoaded has fired
  now,                                   \* the clock, in days
  timers,                                \* pending setTimeout callbacks, in scheduling order
  retailerAddressInput,                  \* value of #retailer-address
  purchaseModalActive,                   \* #purchase-modal has class active
  sendBtnDisabled, sendBtnDisplayed,     \* #send-payment-btn
  confirmBtnDisplayed,                   \* #confirm-receipt-btn
  addressAlert,                          \* #address-alert: none / error / warning / success
  alertDialog                            \* the window.alert being shown, which blocks the page

\* ProductCard.jsx (the React webapp, a page of its own)
VARIABLES
  walletConnected,                       \* walletService.isConnected()
  cardPc,                                \* the await at which handlePurchase is suspended
  isPurchasing, cardError, verificationStatus,   \* the component's useState cells
  cardProduct,                           \* the product prop; its retailerAddress
  cardLog,                               \* external calls made by handlePurchase, in order
  cardVerification,                      \* handlePurchase's local verification.is_trusted
  cardCalls                              \* handlePurchase invocations so far

cardVars == << walletConnected, cardPc, isPurchasing, cardError,
               verificationStatus, cardProduct, cardLog, cardCalls,
               cardVerification >>

appVars == << balance, currentProduct, transactionCounter, ownedTokens,
              transactions, privacyEnabled, purchaseInProgress, domLoaded,
              now, timers, retailerAddressInput, purchaseModalActive,
              sendBtnDisabled, sendBtnDisplayed, confirmBtnDisplayed,
              addressAlert, alertDialog >>

\* ScrollsAPIService (scrolls-api.js)
VARIABLES
  scClient,                              \* this.client has been created by configure
  scServer,                              \* the data the server answers a supply-chain query with
  scCall,                                \* the arguments and external outcomes of the last call
  scResult,                              \* what the last call returned or threw
  scPc                                   \* the await at which the call is suspended

scrollsVars == << scClient, scServer, scCall, scResult, scPc >>

\* the ProductVerification circuit (product-verification.circom)
VARIABLES
  cvInput,                               \* the input signals handed to the prover
  cvWitness                              \* the witness computed from them, if any

circuitVars == << cvInput, cvWitness >>

\* WalletService (wallet.js)
VARIABLES
  wsInitialized,                         \* this.initialized
  wsAvailableWallets,                    \* this.availableWallets
  wsResult,                              \* what the last initialize() returned
  wsPc,                                  \* the await at which the pending call is suspended
  wsCall,                                \* the last asynchronous call and its argument
  wsOutcome,                             \* what that call returned or threw
  wsCurrentWallet,                       \* this.currentWallet
  wsNetwork,                             \* this.network
  wsStored,                              \* localStorage item 'vericharm_wallet'
  wsProvider,                            \* the network each wallet extension is on
  wsListeners,                           \* this.walletListeners
  wsNotified                             \* the listener calls made by the latest step

sessionVars == << wsCall, wsOutcome, wsCurrentWallet, wsNetwork, wsStored,
                  wsProvider, wsListeners, wsNotified >>

walletVars == << wsInitialized, wsAvailableWallets, wsResult, wsPc,
                 sessionVars >>

\* the cache of ScrollsAPIService and the calls that go through it
VARIABLES
  scCache,                               \* this.cache, by cache key
  scClock,                               \* Date.now(), in milliseconds
  scFetch,                               \* the last queryCharms / getCharmToken call
  scFetched                              \* what that call returned or threw

cacheVars == << scCache, scClock, scFetch, scFetched >>

\* one run of scripts/deploy-contract.sh
VARIABLES
  dpEnv,                                 \* the machine the script runs on: how its commands end
  dpPc,                                  \* the function main calls next, or "exited"
  dpStatus,                              \* the exit status
  dpSteps,                               \* the functions main has called, in order
  dpEnvFile,                             \* .env has been written by this run
  dpAddress,                             \* $CONTRACT_ADDRESS
  dpInitialized,                         \* the contract's init was called and succeeded
  dpComplete                             \* 'Deployment Complete!' has been printed

deployVars == << dpEnv, dpPc, dpStatus, dpSteps, dpEnvFile, dpAddress,
                 dpInitialized, dpComplete >>

\* everything but the demo page's state, but the card's, but the API client's
\* uncached methods
notApp == << cardVars, scrollsVars, circuitVars, walletVars, cacheVars,
             deployVars >>

notCard == << appVars, scrollsVars, circuitVars, walletVars, cacheVars,
              deployVars >>

notScrolls == << appVars, cardVars, circuitVars, walletVars, cacheVars,
                 deployVars >>

notCircuit == << appVars, cardVars, scrollsVars, walletVars, cacheVars,
                 deployVars >>

notWallet == << appVars, cardVars, scrollsVars, circuitVars, cacheVars,
                deployVars >>

notCache == << appVars, cardVars, scrollsVars, circuitVars, walletVars,
               deployVars >>

notDeploy == << appVars, cardVars, scrollsVars, circuitVars, walletVars,
                cacheVars >>

vars == << appVars, cardVars, scrollsVars, circuitVars, walletVars,
           cacheVars, deployVars >>

(* --------------------------- the ledger -------------------------------- *)
Tx(type, product, from, to, tokenId, amount) ==
  [ type |-> type, product |-> product, from |-> from, to |-> to,
    tokenId |-> tokenId, amount |-> amount ]

\* addTransaction assigning the counter without incrementing it
addTransactionSameId(led, tx) ==
  [ txs     |-> << [ id |-> led.counter ] @@ tx >> \o led.txs,
    counter |-> led.counter ]

\* addTransaction applied to a ledger state [txs, counter]:
\* tx.id = counter++ ; transactions.unshift(tx)
addTransaction(led, tx) ==
  [ txs     |-> << [ id |-> led.counter ] @@ tx >> \o led.txs,
    counter |-> led.counter + 1 ]

RECURSIVE addAll(_, _)
\* list.forEach(tx => addTransaction(tx))
addAll(led, list) ==
  IF list = << >> THEN led
  ELSE addAll(addTransaction(led, Head(list)), Tail(list))

\* the seed list with the first issuer replaced by an address that is not
\* the product's supplier
initialMintsForged ==
  << Tx("mint", "Eclat de Lune", "addr1...Ph8K", "Factory Mint", "#LUX-001", NULL),
     Tx("mint", "Amoxiclav-Duo", "addr1...Ph8K", "Factory Mint", "#PH-001", NULL),
     Tx("mint", "Royal Purple Eggplants", "addr1...Gr3F", "Factory Mint", "#ORG-001", NULL),
     Tx("mint", "EcoGrid Power Inverter", "addr1...Ec0V", "Factory Mint", "#ECO-001", NULL) >>

initialMints ==
  << Tx("mint", "Eclat de Lune", "addr1...RvT5", "Factory Mint", "#LUX-001", NULL),
     Tx("mint", "Amoxiclav-Duo", "addr1...Ph8K", "Factory Mint", "#PH-001", NULL),
     Tx("mint", "Royal Purple Eggplants", "addr1...Gr3F", "Factory Mint", "#ORG-001", NULL),
     Tx("mint", "EcoGrid Power Inverter", "addr1...Ec0V", "Factory Mint", "#ECO-001", NULL) >>

initialTransfers ==
  << Tx("transfer", "Eclat de Lune", "addr1...RvT5", "0xU...rah5r", "#LUX-001", NULL),
     Tx("transfer", "Amoxiclav-Duo", "addr1...Ph8K", "0xU...ph4rm", "#PH-001", NULL),
     Tx("transfer", "Royal Purple Eggplants", "addr1...Gr3F", "0xU...m4rkT", "#ORG-001", NULL),
     Tx("transfer", "EcoGrid Power Inverter", "addr1...Ec0V", "0xU...Gr3nT", "#ECO-001", NULL) >>

loadInitialTransactions(led) == addAll(addAll(led, initialMints), initialTransfers)

Ledger == [ txs |-> transactions, counter |-> transactionCounter ]

(* ----------------------------- timers ---------------------------------- *)
\* setTimeout delays, in milliseconds
Delay(kind) ==
  CASE kind = "verify" -> 1000
    [] kind = "processing" -> 1500
    [] kind = "seller" -> 2000

\* A callback scheduled later fires before one scheduled earlier only when
\* its delay is strictly shorter.
CanFire(i) ==
  /\ i \in 1..Len(timers)
  /\ \A k \in 1..(i - 1) : Delay(timers[k].kind) > Delay(timers[i].kind)

RemoveAt(s, i) == SubSeq(s, 1, i - 1) \o SubSeq(s, i + 1, Len(s))

(* ------------------------------ Init ----------------------------------- *)
AppInit ==
  /\ balance = InitialBalance
  /\ currentProduct = NULL
  /\ transactionCounter = 0
  /\ ownedTokens = << >>
  /\ transactions = << >>
  /\ privacyEnabled = FALSE
  /\ purchaseInProgress = FALSE
  /\ domLoaded = FALSE
  /\ now = 0
  /\ timers = << >>
  /\ retailerAddressInput = ""
  /\ purchaseModalActive = FALSE
  /\ sendBtnDisabled = FALSE
  /\ sendBtnDisplayed = TRUE
  /\ confirmBtnDisplayed = FALSE
  /\ addressAlert = "none"
  /\ alertDialog = "none"

CardInit ==
  /\ walletConnected = FALSE
  /\ cardPc = "idle"
  /\ isPurchasing = FALSE
  /\ cardError = NULL
  /\ verificationStatus = NULL
  /\ cardProduct = NULL
  /\ cardLog = << >>
  /\ cardCalls = 0
  /\ cardVerification = "none"

ScrollsInit ==
  /\ scClient = FALSE
  /\ scServer = [ product_id |-> "P1", history |-> [ t |-> "undefined" ],
                  privacy_applied |-> [ t |-> "undefined" ] ]
  /\ scCall = [ made |-> FALSE ]
  /\ scResult = [ status |-> "none" ]
  /\ scPc = "idle"

\* new Map(); the page loads at time 0
CacheInit ==
  /\ scCache = [ k \in CacheKeys |-> [ present |-> FALSE ] ]
  /\ scClock = 0
  /\ scFetch = [ pc |-> "idle", method |-> "none", key |-> << >>,
                 requested |-> FALSE ]
  /\ scFetched = [ status |-> "none", data |-> "" ]

\* the script has not been started; the machine has every tool, and the
\* deploy command answers with an address
DeployStart ==
  /\ dpPc = "check_prerequisites"
  /\ dpStatus = 0
  /\ dpSteps = << >>
  /\ dpEnvFile = FALSE
  /\ dpAddress = ""
  /\ dpInitialized = FALSE
  /\ dpComplete = FALSE

DeployInit ==
  /\ DeployStart
  /\ dpEnv = [ rustc |-> TRUE, cargo |-> TRUE, node |-> TRUE,
               charms |-> "installed", build |-> "ok", abi |-> TRUE,
               key |-> "set", deploy |-> "address", manufacturer |-> TRUE,
               init |-> TRUE, webapp |-> TRUE ]

CircuitInit ==
  /\ cvInput = [ verificationHash |-> << 1, 0 >>, manufacturerPublicKey |-> 1,
                 currentTimestamp |-> 0, productId |-> 1, ownerPrivateKey |-> 1,
                 mintTimestamp |-> 0, warrantyPeriod |-> 0, supplyChainHash |-> 1 ]
  /\ cvWitness = [ status |-> "none" ]

\* the constructor sets no availableWallets property
WalletServiceInit ==
  /\ wsInitialized = FALSE
  /\ wsAvailableWallets = [ t |-> "undefined" ]
  /\ wsResult = [ status |-> "none" ]
  /\ wsPc = "idle"
  /\ wsCall = [ op |-> "none", arg |-> "" ]
  /\ wsOutcome = [ status |-> "none", value |-> "" ]
  /\ wsCurrentWallet = [ connected |-> FALSE ]
  /\ wsNetwork = "testnet"
  /\ wsStored = [ present |-> FALSE ]
  /\ wsListeners = {}
  /\ wsNotified = [ l \in Listeners |-> [ called |-> FALSE ] ]

\* the wallet extensions of the browser: window.btc answers getNetwork with a
\* network name, window.cardano.nami answers getNetworkId with a number
Providers == [ hiro : Networks, nami : {0, 1} ]

WalletInit ==
  /\ WalletServiceInit
  /\ wsProvider = [ hiro |-> "mainnet", nami |-> 1 ]

(* ----------------------------- actions --------------------------------- *)
\* The demo page and the React webapp are two pages: a browser session runs
\* one of them.
WebappUntouched == cardCalls = 0 /\ ~walletConnected

\* window.alert blocks the page: no handler or timer runs until it is dismissed
Idle == alertDialog = "none"

DismissAlert ==
  /\ UNCHANGED notApp
  /\ ~Idle
  /\ alertDialog' = "none"
  /\ UNCHANGED << balance, currentProduct, transactionCounter, ownedTokens,
                  transactions, privacyEnabled, purchaseInProgress, domLoaded,
                  now, timers, retailerAddressInput, purchaseModalActive,
                  sendBtnDisabled, sendBtnDisplayed, confirmBtnDisplayed,
                  addressAlert >>

DOMContentLoaded ==
  /\ UNCHANGED notApp
  /\ ~domLoaded
  /\ WebappUntouched
  /\ domLoaded' = TRUE
  /\ LET led == loadInitialTransactions(Ledger)
     IN /\ transactions' = led.txs
        /\ transactionCounter' = led.counter
  /\ UNCHANGED << balance, currentProduct, ownedTokens, privacyEnabled,
                  purchaseInProgress, now, timers, retailerAddressInput,
                  purchaseModalActive, sendBtnDisabled, sendBtnDisplayed,
                  confirmBtnDisplayed, addressAlert, alertDialog >>

openPurchaseModal(productType) ==
  /\ UNCHANGED notApp
  /\ Idle
  /\ domLoaded
  /\ currentProduct' = productType
  /\ IF balance < productInfo[productType].price
     THEN /\ alertDialog' = "insufficient"
          /\ UNCHANGED << retailerAddressInput, purchaseModalActive,
                          sendBtnDisabled, sendBtnDisplayed,
                          confirmBtnDisplayed, addressAlert >>
     ELSE /\ retailerAddressInput' = productInfo[productType].retailerAddress
          \* resetModalState
          /\ addressAlert' = "none"
          /\ sendBtnDisplayed' = TRUE
          /\ sendBtnDisabled' = FALSE
          /\ confirmBtnDisplayed' = FALSE
          \* openModal
          /\ purchaseModalActive' = TRUE
          /\ UNCHANGED alertDialog
  /\ UNCHANGED << balance, transactionCounter, ownedTokens, transactions,
                  privacyEnabled, purchaseInProgress, domLoaded, now, timers >>

\* the user edits the retailer-address field of the open modal; the field is
\* read by sendPayment only, so edits are taken while its button is usable
EditRetailerAddress(a) ==
  /\ UNCHANGED notApp
  /\ Idle
  /\ purchaseModalActive
  /\ sendBtnDisplayed
  /\ ~sendBtnDisabled
  /\ retailerAddressInput # a
  /\ retailerAddressInput' = a
  /\ UNCHANGED << balance, currentProduct, transactionCounter, ownedTokens,
                  transactions, privacyEnabled, purchaseInProgress, domLoaded,
                  now, timers, purchaseModalActive, sendBtnDisabled,
                  sendBtnDisplayed, confirmBtnDisplayed, addressAlert,
                  alertDialog >>

closeModal ==
  /\ UNCHANGED notApp
  /\ Idle
  /\ purchaseModalActive
  /\ purchaseModalActive' = FALSE
  /\ purchaseInProgress' = FALSE
  /\ UNCHANGED << balance, currentProduct, transactionCounter, ownedTokens,
                  transactions, privacyEnabled, domLoaded, now, timers,
                  retailerAddressInput, sendBtnDisabled, sendBtnDisplayed,
                  confirmBtnDisplayed, addressAlert, alertDialog >>

sendPayment ==
  /\ UNCHANGED notApp
  /\ Idle
  /\ purchaseModalActive
  /\ sendBtnDisplayed
  /\ ~sendBtnDisabled
  /\ currentProduct # NULL
  /\ Len(timers) < MaxTimers
  /\ sendBtnDisabled' = TRUE
  /\ timers' = Append(timers, [ kind |-> "verify",
                                address |-> Trim(retailerAddressInput),
                                product |-> currentProduct ])
  /\ UNCHANGED << balance, currentProduct, transactionCounter, ownedTokens,
                  transactions, privacyEnabled, purchaseInProgress, domLoaded,
                  now, retailerAddressInput, purchaseModalActive,
                  sendBtnDisplayed, confirmBtnDisplayed, addressAlert,
                  alertDialog >>

\* verifyRetailerAddress without the early return of the untrusted branch
verifyRetailerAddressNoReturn(address, p, rest) ==
  /\ transactionCounter < MaxTx
  /\ addressAlert' = IF address \notin trustedAddresses THEN "error"
                     ELSE IF address # productInfo[p].retailerAddress
                     THEN "warning" ELSE "success"
  /\ LET led == addTransaction(Ledger,
                  Tx("payment", productInfo[p].name, BuyerAddress,
                     address, NULL, productInfo[p].price))
     IN /\ transactions' = led.txs
        /\ transactionCounter' = led.counter
  /\ timers' = Append(rest, [ kind |-> "processing" ])
  /\ sendBtnDisabled' = IF address \notin trustedAddresses THEN FALSE
                        ELSE sendBtnDisabled

\* verifyRetailerAddress(address, product), with rest the timers left pending
verifyRetailerAddress(address, p, rest) ==
  IF address \notin trustedAddresses
  THEN /\ addressAlert' = "error"
       /\ sendBtnDisabled' = FALSE
       /\ timers' = rest
       /\ UNCHANGED << transactions, transactionCounter >>
  ELSE /\ transactionCounter < MaxTx
       /\ addressAlert' = IF address # productInfo[p].retailerAddress
                          THEN "warning" ELSE "success"
       /\ LET led == addTransaction(Ledger,
                       Tx("payment", productInfo[p].name, BuyerAddress,
                          address, NULL, productInfo[p].price))
          IN /\ transactions' = led.txs
             /\ transactionCounter' = led.counter
       \* continuePurchaseFlow
       /\ timers' = Append(rest, [ kind |-> "processing" ])
       /\ UNCHANGED sendBtnDisabled

\* the callback that sendPayment scheduled
VerifyTimer(i) ==
  /\ UNCHANGED notApp
  /\ Idle
  /\ CanFire(i)
  /\ timers[i].kind = "verify"
  /\ verifyRetailerAddress(timers[i].address, timers[i].product,
                           RemoveAt(timers, i))
  /\ UNCHANGED << balance, currentProduct, ownedTokens, privacyEnabled,
                  purchaseInProgress, domLoaded, now, retailerAddressInput,
                  purchaseModalActive, sendBtnDisplayed, confirmBtnDisplayed,
                  alertDialog >>

\* the outer callback of continuePurchaseFlow
ProcessingTimer(i) ==
  /\ UNCHANGED notApp
  /\ Idle
  /\ CanFire(i)
  /\ timers[i].kind = "processing"
  /\ addressAlert' = "none"
  /\ sendBtnDisplayed' = FALSE
  /\ timers' = Append(RemoveAt(timers, i), [ kind |-> "seller" ])
  /\ UNCHANGED << balance, currentProduct, transactionCounter, ownedTokens,
                  transactions, privacyEnabled, purchaseInProgress, domLoaded,
                  now, retailerAddressInput, purchaseModalActive,
                  sendBtnDisabled, confirmBtnDisplayed, alertDialog >>

\* the inner callback of continuePurchaseFlow
SellerTimer(i) ==
  /\ UNCHANGED notApp
  /\ Idle
  /\ CanFire(i)
  /\ timers[i].kind = "seller"
  /\ confirmBtnDisplayed' = TRUE
  /\ timers' = RemoveAt(timers, i)
  /\ UNCHANGED << balance, currentProduct, transactionCounter, ownedTokens,
                  transactions, privacyEnabled, purchaseInProgress, domLoaded,
                  now, retailerAddressInput, purchaseModalActive,
                  sendBtnDisabled, sendBtnDisplayed, addressAlert, alertDialog >>

\* tokenNumber is Math.floor(Math.random() * 100) + 1
confirmReceipt(tokenNumber) ==
  /\ UNCHANGED notApp
  /\ Idle
  /\ purchaseModalActive
  /\ confirmBtnDisplayed
  /\ currentProduct # NULL
  /\ transactionCounter < MaxTx
  /\ LET p       == currentProduct
         tokenId == TokenIdOf(p, tokenNumber)
         token   == [ id |-> tokenId,
                      product |-> productInfo[p].name,
                      category |-> productInfo[p].category,
                      burnLockDate |-> now + BurnLockDays,
                      price |-> productInfo[p].price ]
         led     == addTransaction(Ledger,
                      Tx("transfer", productInfo[p].name,
                         productInfo[p].retailerAddress, BuyerAddress,
                         tokenId, NULL))
     IN /\ balance' = balance - productInfo[p].price
        /\ ownedTokens' = Append(ownedTokens, token)
        /\ transactions' = led.txs
        /\ transactionCounter' = led.counter
  \* closeModal
  /\ purchaseModalActive' = FALSE
  /\ purchaseInProgress' = FALSE
  /\ UNCHANGED << currentProduct, privacyEnabled, domLoaded, now, timers,
                  retailerAddressInput, sendBtnDisabled, sendBtnDisplayed,
                  confirmBtnDisplayed, addressAlert, alertDialog >>

\* ownedTokens.findIndex(t => t.id === tokenId); 0 stands for -1
findIndex(tokens, tokenId) ==
  IF \E i \in 1..Len(tokens) : tokens[i].id = tokenId
  THEN CHOOSE i \in 1..Len(tokens) :
         /\ tokens[i].id = tokenId
         /\ \A k \in 1..(i - 1) : tokens[k].id # tokenId
  ELSE 0

\* the lock check with the boundary day still locked
WithinLockPeriodInclusive(t, lockDate) == t <= lockDate

\* now < lockDate
WithinLockPeriod(t, lockDate) == t < lockDate

\* confirmed is the answer to window.confirm
burnToken(tokenId, confirmed) ==
  /\ UNCHANGED notApp
  /\ Idle
  /\ domLoaded
  /\ LET tokenIndex == findIndex(ownedTokens, tokenId)
     IN IF tokenIndex = 0
        THEN /\ alertDialog' = "not_found"
             /\ UNCHANGED << ownedTokens, transactions, transactionCounter >>
        ELSE IF WithinLockPeriod(now, ownedTokens[tokenIndex].burnLockDate)
        THEN /\ alertDialog' = "locked"
             /\ UNCHANGED << ownedTokens, transactions, transactionCounter >>
        ELSE IF ~confirmed
        THEN UNCHANGED << ownedTokens, transactions, transactionCounter,
                          alertDialog >>
        ELSE /\ transactionCounter < MaxTx
             /\ LET led == addTransaction(Ledger,
                             Tx("burn", ownedTokens[tokenIndex].product,
                                BuyerAddress, BurnAddress, tokenId, NULL))
                IN /\ transactions' = led.txs
                   /\ transactionCounter' = led.counter
             /\ ownedTokens' = RemoveAt(ownedTokens, tokenIndex)
             /\ alertDialog' = "burned"
  /\ UNCHANGED << balance, currentProduct, privacyEnabled, purchaseInProgress,
                  domLoaded, now, timers, retailerAddressInput,
                  purchaseModalActive, sendBtnDisabled, sendBtnDisplayed,
                  confirmBtnDisplayed, addressAlert >>

\* the alert shows the fields of the token that ownedTokens.find returns
showTokenDetails(tokenId) ==
  /\ UNCHANGED notApp
  /\ Idle
  /\ domLoaded
  /\ alertDialog' = IF findIndex(ownedTokens, tokenId) = 0
                    THEN "not_found" ELSE "details"
  /\ UNCHANGED << balance, currentProduct, transactionCounter, ownedTokens,
                  transactions, privacyEnabled, purchaseInProgress, domLoaded,
                  now, timers, retailerAddressInput, purchaseModalActive,
                  sendBtnDisabled, sendBtnDisplayed, confirmBtnDisplayed,
                  addressAlert >>

\* updateExplorer rebuilds the explorer's DOM from appState and writes nothing
\* back to it
togglePrivacy ==
  /\ UNCHANGED notApp
  /\ Idle
  /\ domLoaded
  /\ privacyEnabled' = ~privacyEnabled
  /\ UNCHANGED << balance, currentProduct, transactionCounter, ownedTokens,
                  transactions, purchaseInProgress, domLoaded, now, timers,
                  retailerAddressInput, purchaseModalActive, sendBtnDisabled,
                  sendBtnDisplayed, confirmBtnDisplayed, addressAlert,
                  alertDialog >>

\* days pass between purchase flows; the millisecond timers have all fired
\* by then
Tick(d) ==
  /\ UNCHANGED notApp
  /\ Idle
  /\ domLoaded
  /\ ~purchaseModalActive
  /\ timers = << >>
  /\ now + d <= MaxNow
  /\ now' = now + d
  /\ UNCHANGED << balance, currentProduct, transactionCounter, ownedTokens,
                  transactions, privacyEnabled, purchaseInProgress, domLoaded,
                  timers, retailerAddressInput, purchaseModalActive,
                  sendBtnDisabled, sendBtnDisplayed, confirmBtnDisplayed,
                  addressAlert, alertDialog >>

(* ------------------------- ProductCard.jsx ----------------------------- *)
\* the wallet service connects or disconnects the wallet
WalletConnects ==
  /\ ~domLoaded
  /\ ~walletConnected
  /\ walletConnected' = TRUE
  /\ UNCHANGED << cardPc, isPurchasing, cardError, verificationStatus,
                  cardProduct, cardLog, cardCalls, cardVerification >>
  /\ UNCHANGED notCard

WalletDisconnects ==
  /\ ~domLoaded
  /\ walletConnected
  /\ walletConnected' = FALSE
  /\ UNCHANGED << cardPc, isPurchasing, cardError, verificationStatus,
                  cardProduct, cardLog, cardCalls, cardVerification >>
  /\ UNCHANGED notCard

\* the catch and finally blocks of handlePurchase
CardFails(msg) ==
  /\ cardError' = msg
  /\ isPurchasing' = FALSE
  /\ cardPc' = "idle"
  /\ cardVerification' = "none"

\* the Purchase button is pressed: handlePurchase runs up to its first await
handlePurchase(retailerAddress) ==
  /\ ~domLoaded
  /\ cardPc = "idle"
  /\ cardCalls < MaxPurchases
  /\ cardCalls' = cardCalls + 1
  /\ cardProduct' = retailerAddress
  /\ IF ~walletConnected
     THEN /\ cardError' = "Please connect your wallet first"
          /\ UNCHANGED << cardPc, isPurchasing >>
     ELSE /\ isPurchasing' = TRUE
          /\ cardError' = NULL
          /\ cardPc' = "verifyRetailer"
  /\ UNCHANGED << walletConnected, verificationStatus, cardLog,
                  cardVerification >>
  /\ UNCHANGED notCard

\* handlePurchase going on to the payment whatever verifyRetailer reported
CardVerifyRetailerUnchecked(outcome) ==
  /\ cardPc = "verifyRetailer"
  /\ CASE outcome \in {"trusted", "untrusted"} ->
            /\ cardPc' = "createPayment"
            /\ cardVerification' = outcome
            /\ UNCHANGED << isPurchasing, cardError >>
       [] outcome = "throws" ->
            CardFails("Purchase failed")
  /\ UNCHANGED << walletConnected, verificationStatus, cardProduct, cardLog,
                  cardCalls >>
  /\ UNCHANGED notCard

\* scrollsAPI.verifyRetailer settles: the directory's verdict, or a rejection
CardVerifyRetailer(outcome) ==
  /\ cardPc = "verifyRetailer"
  /\ CASE outcome = "trusted" ->
            /\ cardPc' = "createPayment"
            /\ cardVerification' = "trusted"
            /\ UNCHANGED << isPurchasing, cardError >>
       [] outcome = "untrusted" ->
            CardFails("Retailer not in trusted directory")
       [] outcome = "throws" ->
            CardFails("Purchase failed")
  /\ UNCHANGED << walletConnected, verificationStatus, cardProduct, cardLog,
                  cardCalls >>
  /\ UNCHANGED notCard

\* getWalletInfo() and charmsService.createPaymentTransaction; getWalletInfo
\* returns null without a wallet and walletInfo.address then throws
CardCreatePayment(ok) ==
  /\ cardPc = "createPayment"
  /\ IF walletConnected /\ ok
     THEN /\ cardLog' = Append(cardLog, "createPaymentTransaction")
          /\ cardPc' = "sign"
          /\ UNCHANGED << isPurchasing, cardError, cardVerification >>
     ELSE /\ CardFails("Purchase failed")
          /\ UNCHANGED cardLog
  /\ UNCHANGED << walletConnected, verificationStatus, cardProduct, cardCalls >>
  /\ UNCHANGED notCard

\* walletService.signTransaction: throws 'No wallet connected' without a wallet
CardSign(ok) ==
  /\ cardPc = "sign"
  /\ IF walletConnected /\ ok
     THEN /\ cardLog' = Append(cardLog, "signTransaction")
          /\ cardPc' = "submit"
          /\ UNCHANGED << isPurchasing, cardError, cardVerification >>
     ELSE /\ CardFails(IF walletConnected THEN "Purchase failed"
                       ELSE "No wallet connected")
          /\ UNCHANGED cardLog
  /\ UNCHANGED << walletConnected, verificationStatus, cardProduct, cardCalls >>
  /\ UNCHANGED notCard

\* scrollsAPI.submitTransaction
CardSubmit(ok) ==
  /\ cardPc = "submit"
  /\ IF ok
     THEN /\ cardLog' = Append(cardLog, "submitTransaction")
          /\ cardPc' = "waitTransfer"
          /\ UNCHANGED << isPurchasing, cardError, cardVerification >>
     ELSE /\ CardFails("Purchase failed")
          /\ UNCHANGED cardLog
  /\ UNCHANGED << walletConnected, verificationStatus, cardProduct, cardCalls >>
  /\ UNCHANGED notCard

\* charmsService.waitForTokenTransfer
CardWaitTransfer(ok) ==
  /\ cardPc = "waitTransfer"
  /\ IF ok
     THEN /\ cardLog' = Append(cardLog, "tokenTransfer")
          /\ cardPc' = "getToken"
          /\ UNCHANGED << isPurchasing, cardError, cardVerification >>
     ELSE /\ CardFails("Purchase failed")
          /\ UNCHANGED cardLog
  /\ UNCHANGED << walletConnected, verificationStatus, cardProduct, cardCalls >>
  /\ UNCHANGED notCard

\* scrollsAPI.getCharmToken, setVerificationStatus and onPurchaseComplete
CardGetToken(ok) ==
  /\ cardPc = "getToken"
  /\ IF ok
     THEN /\ cardLog' = Append(cardLog, "onPurchaseComplete")
          /\ verificationStatus' = "success"
          /\ isPurchasing' = FALSE
          /\ cardPc' = "idle"
          /\ cardVerification' = "none"
          /\ UNCHANGED cardError
     ELSE /\ CardFails("Purchase failed")
          /\ UNCHANGED << cardLog, verificationStatus >>
  /\ UNCHANGED << walletConnected, cardProduct, cardCalls >>
  /\ UNCHANGED notCard

(* --------------------------- scrolls-api.js ---------------------------- *)
\* JSON values, tagged with what typeof / Array.isArray tell apart; object
\* keys and the sensitive words are sequences of characters
JUndefined == [ t |-> "undefined" ]

JNull == [ t |-> "null" ]

JBool(b) == [ t |-> "boolean", v |-> b ]

JNum(n) == [ t |-> "number", v |-> n ]

JStr(str) == [ t |-> "string", v |-> str ]

JArr(seq) == [ t |-> "array", v |-> seq ]

JObj(f) == [ t |-> "object", v |-> f ]

\* the sensitiveFields literal of isSensitiveField
sensitiveFields ==
  << << "p", "r", "i", "v", "a", "t", "e", "K", "e", "y" >>,
     << "s", "e", "c", "r", "e", "t" >>,
     << "p", "a", "s", "s", "w", "o", "r", "d" >>,
     << "p", "i", "n" >>,
     << "a", "d", "d", "r", "e", "s", "s" >>,
     << "e", "m", "a", "i", "l" >>,
     << "p", "h", "o", "n", "e" >>,
     << "s", "s", "n" >>,
     << "d", "o", "b" >> >>

UpperToLower ==
  [ A |-> "a", B |-> "b", C |-> "c", D |-> "d", E |-> "e", F |-> "f",
    G |-> "g", H |-> "h", I |-> "i", J |-> "j", K |-> "k", L |-> "l",
    M |-> "m", N |-> "n", O |-> "o", P |-> "p", Q |-> "q", R |-> "r",
    S |-> "s", T |-> "t", U |-> "u", V |-> "v", W |-> "w", X |-> "x",
    Y |-> "y", Z |-> "z" ]

\* String.prototype.toLowerCase
toLowerCase(str) ==
  [ i \in 1..Len(str) |->
      IF str[i] \in DOMAIN UpperToLower THEN UpperToLower[str[i]] ELSE str[i] ]

\* String.prototype.includes
includes(str, part) ==
  \E i \in 1..(Len(str) - Len(part) + 1) :
    SubSeq(str, i, i + Len(part) - 1) = part

\* isSensitiveField comparing against the list as written, not lowercased
isSensitiveFieldAsWritten(fieldName) ==
  \E k \in 1..Len(sensitiveFields) :
    includes(toLowerCase(fieldName), sensitiveFields[k])

isSensitiveField(fieldName) ==
  \E k \in 1..Len(sensitiveFields) :
    includes(toLowerCase(fieldName), toLowerCase(sensitiveFields[k]))

Redacted == JStr("[REDACTED]")

RECURSIVE extractPublicDataNoArrays(_)
\* extractPublicData without the Array.isArray branch: arrays pass as they are
extractPublicDataNoArrays(data) ==
  IF data.t = "object"
  THEN JObj([ key \in DOMAIN data.v |->
                IF ~isSensitiveField(key)
                THEN extractPublicDataNoArrays(data.v[key])
                ELSE Redacted ])
  ELSE data

RECURSIVE extractPublicDataDescends(_)
\* extractPublicData redacting a sensitive field only when it holds a leaf:
\* an object or array under a sensitive name is descended into
extractPublicDataDescends(data) ==
  IF data.t = "array"
  THEN JArr([ i \in 1..Len(data.v) |-> extractPublicDataDescends(data.v[i]) ])
  ELSE IF data.t = "object"
  THEN JObj([ key \in DOMAIN data.v |->
                IF ~isSensitiveField(key) \/ data.v[key].t \in {"object", "array"}
                THEN extractPublicDataDescends(data.v[key])
                ELSE Redacted ])
  ELSE data

RECURSIVE extractPublicDataOmits(_)
\* extractPublicData leaving sensitive fields out of publicData
extractPublicDataOmits(data) ==
  IF data.t = "array"
  THEN JArr([ i \in 1..Len(data.v) |-> extractPublicDataOmits(data.v[i]) ])
  ELSE IF data.t = "object"
  THEN JObj([ key \in { k \in DOMAIN data.v : ~isSensitiveField(k) } |->
                extractPublicDataOmits(data.v[key]) ])
  ELSE data

RECURSIVE extractPublicData(_)
extractPublicData(data) ==
  IF data.t = "array"
  THEN JArr([ i \in 1..Len(data.v) |-> extractPublicData(data.v[i]) ])
  ELSE IF data.t = "object"
  THEN JObj([ key \in DOMAIN data.v |->
                IF ~isSensitiveField(key)
                THEN extractPublicData(data.v[key])
                ELSE Redacted ])
  ELSE data

kProof == << "p", "r", "o", "o", "f" >>

kPublicSignals == << "p", "u", "b", "l", "i", "c", "S", "i", "g", "n", "a", "l", "s" >>

kVerificationKey ==
  << "v", "e", "r", "i", "f", "i", "c", "a", "t", "i", "o", "n", "K", "e", "y" >>

kPublicData == << "p", "u", "b", "l", "i", "c", "D", "a", "t", "a" >>

\* applyPrivacyShield(data); proverOk tells whether zk.generateProof resolved,
\* and its bundle is opaque
applyPrivacyShield(data, proverOk) ==
  IF proverOk
  THEN JObj(   (kProof :> JStr("zkProof.proof"))
            @@ (kPublicSignals :> JStr("zkProof.publicSignals"))
            @@ (kVerificationKey :> JStr("zkProof.verificationKey"))
            @@ (kPublicData :> extractPublicData(data)) )
  ELSE data

\* the truthiness test of `response.data.history`
Truthy(x) ==
  CASE x.t \in {"undefined", "null"} -> FALSE
    [] x.t = "boolean" -> x.v
    [] x.t = "number" -> x.v # 0
    [] x.t = "string" -> x.v # ""
    [] OTHER -> TRUE

\* field names of the histories the server sends
kType == << "t", "y", "p", "e" >>

kTimestamp == << "t", "i", "m", "e", "s", "t", "a", "m", "p" >>

kCategory == << "c", "a", "t", "e", "g", "o", "r", "y" >>

kAddress == << "a", "d", "d", "r", "e", "s", "s" >>

kPrivateKey == << "p", "r", "i", "v", "a", "t", "e", "K", "e", "y" >>

kShipping == << "s", "h", "i", "p", "p", "i", "n", "g" >>

FieldNames == { kType, kTimestamp, kCategory, kAddress, kPrivateKey, kShipping }

Leaves == { JStr("a"), JNum(7) }

\* events: one field; type and one more field; an object under a field; an
\* array under a field
Events ==
       { JObj(k :> l) : k \in FieldNames, l \in Leaves }
  \cup { JObj((kType :> JStr("transfer")) @@ (k :> JStr("a"))) :
           k \in FieldNames \ {kType} }
  \cup { JObj(k1 :> JObj(k2 :> JNum(7))) :
           k1 \in {kCategory, kAddress}, k2 \in {kType, kPrivateKey} }
  \cup { JObj(kCategory :> JArr(<< JObj(k :> JStr("a")), JNum(7) >>)) :
           k \in {kTimestamp, kAddress} }

Histories ==
  UNION { { JArr(seq) : seq \in [1..n -> Events] } : n \in 1..MaxHistory }

\* what the server may answer to GET /v1/supply-chain/:id
Responses ==
  [ product_id : {"P1"},
    history : Histories \cup {JUndefined},
    privacy_applied : {JUndefined, JBool(TRUE), JBool(FALSE)} ]

\* the events of the histories whose disclosed views are compared: a leaf, an
\* object or an array under a public or a sensitive name
ViewEvents ==
       { JObj(k :> l) : k \in {kType, kAddress}, l \in Leaves }
  \cup { JObj(k1 :> JObj(k2 :> JNum(7))) :
           k1 \in {kCategory, kAddress}, k2 \in {kType, kPrivateKey} }
  \cup { JObj(kCategory :> JArr(<< JObj(k :> JStr("a")), JNum(7) >>)) :
           k \in {kTimestamp, kAddress} }

ViewHistories ==
  UNION { { JArr(seq) : seq \in [1..n -> ViewEvents] } : n \in 1..MaxViewHistory }

ViewResponses ==
  [ product_id : {"P1"},
    history : ViewHistories,
    privacy_applied : {JUndefined, JBool(TRUE)} ]

\* the server holds any of the responses above
ScrollsViewed ==
  /\ scClient = FALSE
  /\ scServer \in ViewResponses
  /\ scCall = [ made |-> FALSE ]
  /\ scResult = [ status |-> "none" ]
  /\ scPc = "idle"

\* the server holds any of the responses
ScrollsServed ==
  /\ scClient = FALSE
  /\ scServer \in Responses
  /\ scCall = [ made |-> FALSE ]
  /\ scResult = [ status |-> "none" ]
  /\ scPc = "idle"

configure ==
  /\ ~scClient
  /\ scPc = "idle"
  /\ scClient' = TRUE
  /\ UNCHANGED << scServer, scCall, scResult, scPc >>
  /\ UNCHANGED notScrolls

\* how a request of the axios client settles: a 2xx response, an error
\* response, or no response within the client's timeout of 30000 ms
HttpOutcomes == {"ok", "error", "timeout"}

kStatus == << "s", "t", "a", "t", "u", "s" >>

kError == << "e", "r", "r", "o", "r" >>

\* the body of GET /v1/status
StatusData == JObj(kStatus :> JStr("online"))

\* the object getStatus builds in its catch block
StatusOffline(message) ==
  JObj((kStatus :> JStr("offline")) @@ (kError :> JStr(message)))

\* error.message of what the request of getStatus throws
ErrorMessage(outcome) ==
  CASE outcome = "error" -> "Request failed with status code 500"
    [] outcome = "timeout" -> "timeout of 30000ms exceeded"
    [] outcome = "noClient" ->
         "Cannot read properties of undefined (reading 'get')"

Called(method, privacy) ==
  [ made |-> TRUE, method |-> method, privacy |-> privacy,
    httpOk |-> FALSE, proverOk |-> FALSE ]

\* getSupplyChainHistory(productId, {privacy}) up to its first await; without
\* a client this.client.get throws and the catch block rethrows
getSupplyChainHistory(privacy) ==
  /\ scPc = "idle"
  /\ scCall' = Called("getSupplyChainHistory", privacy)
  /\ IF scClient
     THEN /\ scResult' = [ status |-> "pending" ]
          /\ scPc' = "http"
     ELSE /\ scResult' = [ status |-> "threw" ]
          /\ scPc' = "idle"
  /\ UNCHANGED << scClient, scServer >>
  /\ UNCHANGED notScrolls

\* getStatus reading this.client before its try block: without a client the
\* TypeError escapes
getStatusUncaught ==
  /\ scPc = "idle"
  /\ scCall' = Called("getStatus", FALSE)
  /\ IF scClient
     THEN /\ scResult' = [ status |-> "pending" ]
          /\ scPc' = "http"
     ELSE /\ scResult' = [ status |-> "threw" ]
          /\ scPc' = "idle"
  /\ UNCHANGED << scClient, scServer >>
  /\ UNCHANGED notScrolls

\* getStatus() up to its await; without a client this.client.get throws
\* inside the try block
getStatus ==
  /\ scPc = "idle"
  /\ scCall' = Called("getStatus", FALSE)
  /\ IF scClient
     THEN /\ scResult' = [ status |-> "pending" ]
          /\ scPc' = "http"
     ELSE /\ scResult' = [ status |-> "returned",
                           data |-> StatusOffline(ErrorMessage("noClient")) ]
          /\ scPc' = "idle"
  /\ UNCHANGED << scClient, scServer >>
  /\ UNCHANGED notScrolls

\* the pending request settles (response.data = scServer for the supply
\* chain) and the suspended method runs on to its next await or to its end
HttpSettles(outcome) ==
  /\ scPc = "http"
  /\ scCall' = [ scCall EXCEPT !.httpOk = (outcome = "ok") ]
  /\ IF scCall.method = "getStatus"
     THEN /\ scResult' = [ status |-> "returned",
                           data |-> IF outcome = "ok" THEN StatusData
                                    ELSE StatusOffline(ErrorMessage(outcome)) ]
          /\ scPc' = "idle"
     ELSE IF outcome # "ok"
     THEN /\ scResult' = [ status |-> "threw" ]
          /\ scPc' = "idle"
     ELSE IF scCall.privacy /\ Truthy(scServer.history)
     THEN /\ scPc' = "proving"
          /\ UNCHANGED scResult
     ELSE /\ scResult' = [ status |-> "returned", data |-> scServer ]
          /\ scPc' = "idle"
  /\ UNCHANGED << scClient, scServer >>
  /\ UNCHANGED notScrolls

\* zk.generateProof, awaited by applyPrivacyShield, resolves or rejects
ProverSettles(proverOk) ==
  /\ scPc = "proving"
  /\ scCall' = [ scCall EXCEPT !.proverOk = proverOk ]
  /\ scResult' = [ status |-> "returned",
                   data |-> [ scServer EXCEPT !.history =
                                applyPrivacyShield(scServer.history, proverOk) ] ]
  /\ scPc' = "idle"
  /\ UNCHANGED << scClient, scServer >>
  /\ UNCHANGED notScrolls

(* ------------------------ the cache of the client ---------------------- *)
\* the message of the Error handleError builds: for an error response, for a
\* request without response, and for an error raised before any request
handleError(outcome) ==
  CASE outcome = "error" -> "Scrolls API Error 500: Unknown error"
    [] outcome = "timeout" ->
         "No response from Scrolls API. Check your connection."
    [] outcome = "noClient" ->
         "Scrolls API request failed: " \o ErrorMessage("noClient")

\* the cache test with an entry still served at the age of cacheTTL
FreshInclusive(entry) ==
  entry.present /\ scClock - entry.timestamp <= cacheTTL

\* this.cache.has(cacheKey) && Date.now() - cached.timestamp < this.cacheTTL
Fresh(entry) ==
  entry.present /\ scClock - entry.timestamp < cacheTTL

\* queryCharms / getCharmToken up to the await of the request: a fresh entry
\* is returned at once; without a client this.client.post throws inside the
\* try block
Fetch(method, key) ==
  /\ scFetch.pc = "idle"
  /\ IF Fresh(scCache[key])
     THEN /\ scFetch' = [ pc |-> "idle", method |-> method, key |-> key,
                          requested |-> FALSE ]
          /\ scFetched' = [ status |-> "returned",
                            data |-> scCache[key].data ]
     ELSE IF scClient
     THEN /\ scFetch' = [ pc |-> "http", method |-> method, key |-> key,
                          requested |-> TRUE ]
          /\ scFetched' = [ status |-> "pending", data |-> "" ]
     ELSE /\ scFetch' = [ pc |-> "idle", method |-> method, key |-> key,
                          requested |-> FALSE ]
          /\ scFetched' = [ status |-> "threw",
                            data |-> handleError("noClient") ]
  /\ UNCHANGED << scCache, scClock >>
  /\ UNCHANGED notCache

queryCharms(query) == Fetch("queryCharms", QueryKey(query))

\* options.includeHistory defaults to true, options.zkProof to false
getCharmToken(tokenId, includeHistory, zkProof) ==
  Fetch("getCharmToken", TokenKey(tokenId, includeHistory, zkProof))

\* a call that stores whatever the request ended with
FetchSettlesStoresAll(outcome, data) ==
  /\ scFetch.pc = "http"
  /\ scFetch' = [ scFetch EXCEPT !.pc = "idle" ]
  /\ scCache' = [ scCache EXCEPT ![scFetch.key] =
                    [ present |-> TRUE, data |-> data,
                      timestamp |-> scClock ] ]
  /\ scFetched' = IF outcome = "ok"
                  THEN [ status |-> "returned", data |-> data ]
                  ELSE [ status |-> "threw", data |-> handleError(outcome) ]
  /\ UNCHANGED scClock
  /\ UNCHANGED notCache

\* the request settles: response.data is stored with the time of the
\* response and returned, or the catch block throws handleError(error)
FetchSettles(outcome, data) ==
  /\ scFetch.pc = "http"
  /\ scFetch' = [ scFetch EXCEPT !.pc = "idle" ]
  /\ IF outcome = "ok"
     THEN /\ scCache' = [ scCache EXCEPT ![scFetch.key] =
                            [ present |-> TRUE, data |-> data,
                              timestamp |-> scClock ] ]
          /\ scFetched' = [ status |-> "returned", data |-> data ]
     ELSE /\ scFetched' = [ status |-> "threw", data |-> handleError(outcome) ]
          /\ UNCHANGED scCache
  /\ UNCHANGED scClock
  /\ UNCHANGED notCache

\* this.cache.clear(), at any time
clearCache ==
  /\ scCache' = [ k \in CacheKeys |-> [ present |-> FALSE ] ]
  /\ UNCHANGED << scClock, scFetch, scFetched >>
  /\ UNCHANGED notCache

\* time passes
ClockTicks ==
  /\ scClock < MaxClock * ClockTick
  /\ scClock' = scClock + ClockTick
  /\ UNCHANGED << scCache, scFetch, scFetched >>
  /\ UNCHANGED notCache

(* --------------------- product-verification.circom --------------------- *)
\* the order of the scalar field, scaled down with CmpBits
FieldPrime == 251

Pow2(n) == 2 ^ n

\* circomlib Num2Bits(n): the bits of a field element, constrained to fit n bits
Num2Bits(n, x) ==
  [ fits |-> x < Pow2(n),
    out  |-> [ k \in 0..(n - 1) |-> (x \div Pow2(k)) % 2 ] ]

\* circomlib LessThan(n): n2b.in <== in[0] + (1<<n) - in[1]; out <== 1 - n2b.out[n]
LessThan(n, a, b) ==
  LET n2b == Num2Bits(n + 1, (a + Pow2(n) + FieldPrime - b) % FieldPrime)
  IN [ satisfied |-> n2b.fits, out |-> 1 - n2b.out[n] ]

\* LessEqThan comparing in[0] with in[1] itself, not with in[1] + 1
LessEqThanStrict(n, a, b) == LessThan(n, a, b)

\* circomlib LessEqThan(n): LessThan(n) of in[0] and in[1] + 1
LessEqThan(n, a, b) == LessThan(n, a, (b + 1) % FieldPrime)

\* the digests of SHA256 and Pedersen are kept symbolic: two inputs give one
\* digest exactly when they are equal
Sha256(in0, in1) == << in0, in1 >>

Pedersen(in0, in1) == << "pedersen", in0, in1 >>

\* template ProductVerification: the witness for the input signals, when the
\* constraints can be satisfied
ProductVerification(in) ==
  LET sha     == Sha256(in.productId, in.mintTimestamp)
      compare == LessEqThan(CmpBits, in.currentTimestamp,
                            (in.mintTimestamp + in.warrantyPeriod) % FieldPrime)
  IN IF compare.satisfied
     THEN [ status |-> "computed",
            isValid |-> 1,
            isInWarranty |-> compare.out,
            zkProofHash |-> Pedersen(in.productId, in.supplyChainHash) ]
     ELSE [ status |-> "unsatisfiable" ]

\* the values a timestamp or a warranty period takes: the comparator's range
Comparable == 0..(Pow2(CmpBits) - 1)

\* the prover is handed any input signals: the public hash of product 1
\* minted at 0 or another one, and private inputs that agree with it or not
CircuitInputs ==
  /\ cvInput \in [ verificationHash : { Sha256(1, 0), Sha256(2, 1) },
                    manufacturerPublicKey : {1},
                    currentTimestamp : Comparable,
                    productId : {1, 2},
                    ownerPrivateKey : {1},
                    mintTimestamp : Comparable,
                    warrantyPeriod : Comparable,
                    supplyChainHash : {1} ]
  /\ cvWitness = [ status |-> "none" ]

\* witness generation for the main component
GenerateWitness ==
  /\ cvWitness.status = "none"
  /\ cvWitness' = ProductVerification(cvInput)
  /\ UNCHANGED cvInput
  /\ UNCHANGED notCircuit

(* ------------------------------ wallet.js ------------------------------ *)
WalletTypes == {"hiro", "nami", "flint"}

\* how detectWallet settles: it resolves with a list of wallets or rejects
Detections ==
  [ resolved : {TRUE},
    wallets : UNION { [1..n -> WalletTypes] : n \in 0..MaxWallets } ]
  \cup { [ resolved |-> FALSE, wallets |-> << >> ] }

\* initialize() up to its await of detectWallet()
initialize ==
  /\ wsPc = "idle"
  /\ wsPc' = "detectWallet"
  /\ wsResult' = [ status |-> "pending" ]
  /\ wsCall' = [ op |-> "initialize", arg |-> "" ]
  /\ wsOutcome' = [ status |-> "pending", value |-> "" ]
  /\ wsNotified' = NoCalls
  /\ UNCHANGED << wsInitialized, wsAvailableWallets, wsCurrentWallet,
                  wsNetwork, wsStored, wsProvider, wsListeners >>
  /\ UNCHANGED notWallet

\* where detectWallet's settling leaves the caller: connectWallet goes on to
\* its switch and ignores what initialize returned
AfterInitialize ==
  /\ wsPc' = IF wsCall.op = "connectWallet" THEN "connect" ELSE "idle"
  /\ wsOutcome' = IF wsCall.op = "connectWallet"
                  THEN wsOutcome
                  ELSE [ status |-> "returned", value |-> "" ]
  /\ wsNotified' = NoCalls
  /\ UNCHANGED << wsCall, wsCurrentWallet, wsNetwork, wsStored, wsProvider,
                  wsListeners >>

\* initialize without the test of availableWallets.length
DetectSettlesNoLengthTest(d) ==
  /\ wsPc = "detectWallet"
  /\ AfterInitialize
  /\ IF d.resolved
     THEN /\ wsAvailableWallets' = JArr(d.wallets)
          /\ wsInitialized' = TRUE
          /\ wsResult' = [ status |-> "returned", value |-> TRUE ]
     ELSE /\ wsResult' = [ status |-> "returned", value |-> FALSE ]
          /\ UNCHANGED << wsInitialized, wsAvailableWallets >>
  /\ UNCHANGED notWallet

\* detectWallet settles and initialize runs to its end: an empty list throws
\* inside the try block, and the catch block returns false
DetectSettles(d) ==
  /\ wsPc = "detectWallet"
  /\ AfterInitialize
  /\ IF d.resolved /\ Len(d.wallets) # 0
     THEN /\ wsAvailableWallets' = JArr(d.wallets)
          /\ wsInitialized' = TRUE
          /\ wsResult' = [ status |-> "returned", value |-> TRUE ]
     ELSE /\ wsResult' = [ status |-> "returned", value |-> FALSE ]
          /\ UNCHANGED << wsInitialized, wsAvailableWallets >>
  /\ UNCHANGED notWallet

\* getWalletInfo(): null without a wallet, else a copy of four of its fields
\* (the balance is not modelled)
getWalletInfo(wallet) ==
  IF ~wallet.connected
  THEN [ isNull |-> TRUE ]
  ELSE [ isNull |-> FALSE, type |-> wallet.type, address |-> wallet.address,
         network |-> wallet.network ]

isConnected == wsCurrentWallet.connected

\* notifyWalletChange(): every registered listener is called with
\* getWalletInfo(); what a listener throws is caught
notifyWalletChange(wallet) ==
  [ l \in Listeners |->
      IF l \in wsListeners
      THEN [ called |-> TRUE, info |-> getWalletInfo(wallet) ]
      ELSE [ called |-> FALSE ] ]

addWalletListener(l) ==
  /\ l \notin wsListeners
  /\ wsListeners' = wsListeners \cup {l}
  /\ wsNotified' = NoCalls
  /\ UNCHANGED << wsInitialized, wsAvailableWallets, wsResult, wsPc, wsCall,
                  wsOutcome, wsCurrentWallet, wsNetwork, wsStored,
                  wsProvider >>
  /\ UNCHANGED notWallet

\* the closure addWalletListener returned
removeWalletListener(l) ==
  /\ l \in wsListeners
  /\ wsListeners' = wsListeners \ {l}
  /\ wsNotified' = NoCalls
  /\ UNCHANGED << wsInitialized, wsAvailableWallets, wsResult, wsPc, wsCall,
                  wsOutcome, wsCurrentWallet, wsNetwork, wsStored,
                  wsProvider >>
  /\ UNCHANGED notWallet

\* connectWallet(walletType) up to its first await: initialize() on a service
\* that is not initialized, else the wallet extension
connectWallet(walletType) ==
  /\ wsPc = "idle"
  /\ wsCall' = [ op |-> "connectWallet", arg |-> walletType ]
  /\ wsOutcome' = [ status |-> "pending", value |-> "" ]
  /\ wsPc' = IF wsInitialized THEN "connect" ELSE "detectWallet"
  /\ wsResult' = IF wsInitialized THEN wsResult ELSE [ status |-> "pending" ]
  /\ wsNotified' = NoCalls
  /\ UNCHANGED << wsInitialized, wsAvailableWallets, wsCurrentWallet,
                  wsNetwork, wsStored, wsProvider, wsListeners >>
  /\ UNCHANGED notWallet

\* how the wallet extension answers connectHiroWallet / connectNamiWallet
ProviderOutcomes ==
  [ kind : {"ok"}, address : Addresses ]
  \cup { [ kind |-> "notInstalled" ], [ kind |-> "error" ] }

\* connectNamiWallet's reading of getNetworkId()
namiNetwork(networkId) == IF networkId = 0 THEN "mainnet" ELSE "testnet"

\* the network of the wallet object connectHiroWallet / connectNamiWallet build
providerNetwork(walletType) ==
  IF walletType = "hiro" THEN wsProvider.hiro ELSE namiNetwork(wsProvider.nami)

\* the error connectWallet rethrows
connectError(walletType, o) ==
  IF walletType = "flint" THEN "TypeError: this.connectFlintWallet is not a function"
  ELSE IF walletType \notin {"hiro", "nami"} THEN "Unsupported wallet type"
  ELSE IF o.kind = "notInstalled" THEN "wallet not installed"
  ELSE "wallet connection failed"

\* the rest of connectWallet: the switch, and after a wallet was built the
\* assignment, the notification and the write of the session, in that order;
\* localStorage.setItem throws when the storage quota is exceeded
ConnectSettles(o, storeOk) ==
  /\ wsPc = "connect"
  /\ wsPc' = "idle"
  /\ LET walletType == wsCall.arg
     IN IF walletType \in {"hiro", "nami"} /\ o.kind = "ok"
        THEN LET wallet == [ connected |-> TRUE, type |-> walletType,
                             address |-> o.address,
                             network |-> providerNetwork(walletType) ]
             IN /\ wsCurrentWallet' = wallet
                /\ wsNotified' = notifyWalletChange(wallet)
                /\ IF storeOk
                   THEN /\ wsStored' = [ present |-> TRUE, type |-> walletType,
                                         address |-> wallet.address,
                                         network |-> wsNetwork ]
                        /\ wsOutcome' = [ status |-> "returned",
                                          value |-> "wallet" ]
                   ELSE /\ wsOutcome' = [ status |-> "threw",
                                          value |-> "QuotaExceededError" ]
                        /\ UNCHANGED wsStored
        ELSE /\ wsOutcome' = [ status |-> "threw",
                               value |-> connectError(walletType, o) ]
             /\ wsNotified' = NoCalls
             /\ UNCHANGED << wsCurrentWallet, wsStored >>
  /\ UNCHANGED << wsInitialized, wsAvailableWallets, wsResult, wsCall,
                  wsNetwork, wsProvider, wsListeners >>
  /\ UNCHANGED notWallet

\* disconnectWallet keeping the stored session
disconnectWalletKeepsSession ==
  /\ wsCurrentWallet' = [ connected |-> FALSE ]
  /\ wsNotified' = notifyWalletChange([ connected |-> FALSE ])
  /\ UNCHANGED << wsInitialized, wsAvailableWallets, wsResult, wsPc, wsCall,
                  wsOutcome, wsNetwork, wsProvider, wsListeners, wsStored >>
  /\ UNCHANGED notWallet

\* disconnectWallet() is synchronous: it runs whenever the page calls it, also
\* while an asynchronous call is suspended
disconnectWallet ==
  /\ wsCurrentWallet' = [ connected |-> FALSE ]
  /\ wsStored' = [ present |-> FALSE ]
  /\ wsNotified' = notifyWalletChange([ connected |-> FALSE ])
  /\ UNCHANGED << wsInitialized, wsAvailableWallets, wsResult, wsPc, wsCall,
                  wsOutcome, wsNetwork, wsProvider, wsListeners >>
  /\ UNCHANGED notWallet

\* switchNetwork(network) up to its await of the Hiro extension; with a Nami
\* wallet there is no await and the call runs to its end
switchNetwork(network) ==
  /\ wsPc = "idle"
  /\ wsCall' = [ op |-> "switchNetwork", arg |-> network ]
  /\ IF ~isConnected
     THEN /\ wsOutcome' = [ status |-> "threw",
                            value |-> "No wallet connected" ]
          /\ wsNotified' = NoCalls
          /\ UNCHANGED << wsPc, wsCurrentWallet, wsNetwork >>
     ELSE IF wsCurrentWallet.type = "hiro"
     THEN /\ wsPc' = "switch"
          /\ wsOutcome' = [ status |-> "pending", value |-> "" ]
          /\ wsNotified' = NoCalls
          /\ UNCHANGED << wsCurrentWallet, wsNetwork >>
     ELSE /\ wsNetwork' = network
          /\ wsCurrentWallet' = [ wsCurrentWallet EXCEPT !.network = network ]
          /\ wsNotified' = notifyWalletChange(wsCurrentWallet')
          /\ wsOutcome' = [ status |-> "returned", value |-> "true" ]
          /\ UNCHANGED wsPc
  /\ UNCHANGED << wsInitialized, wsAvailableWallets, wsResult, wsStored,
                  wsProvider, wsListeners >>
  /\ UNCHANGED notWallet

\* the Hiro extension answers the switchNetwork request; the wallet may have
\* been disconnected meanwhile, and then this.currentWallet.network throws
\* after this.network was assigned
SwitchSettles(ok) ==
  /\ wsPc = "switch"
  /\ wsPc' = "idle"
  /\ IF ~ok
     THEN /\ wsOutcome' = [ status |-> "threw", value |-> "request rejected" ]
          /\ wsNotified' = NoCalls
          /\ UNCHANGED << wsCurrentWallet, wsNetwork, wsProvider >>
     ELSE /\ wsProvider' = [ wsProvider EXCEPT !.hiro =
                               IF wsCall.arg = "mainnet" THEN "mainnet"
                                                         ELSE "testnet" ]
          /\ wsNetwork' = wsCall.arg
          /\ IF isConnected
             THEN /\ wsCurrentWallet' =
                       [ wsCurrentWallet EXCEPT !.network = wsCall.arg ]
                  /\ wsNotified' = notifyWalletChange(wsCurrentWallet')
                  /\ wsOutcome' = [ status |-> "returned", value |-> "true" ]
             ELSE /\ wsOutcome' = [ status |-> "threw", value |-> "TypeError" ]
                  /\ wsNotified' = NoCalls
                  /\ UNCHANGED wsCurrentWallet
  /\ UNCHANGED << wsInitialized, wsAvailableWallets, wsResult, wsCall,
                  wsStored, wsListeners >>
  /\ UNCHANGED notWallet

\* signTransaction(txHex, options) up to its await of the Hiro extension;
\* signCardanoTransaction is not defined, so a Nami wallet throws a TypeError
signTransaction ==
  /\ wsPc = "idle"
  /\ wsCall' = [ op |-> "signTransaction", arg |-> "" ]
  /\ wsNotified' = NoCalls
  /\ IF ~isConnected
     THEN /\ wsOutcome' = [ status |-> "threw",
                            value |-> "No wallet connected" ]
          /\ UNCHANGED wsPc
     ELSE IF wsCurrentWallet.type = "hiro"
     THEN /\ wsPc' = "sign"
          /\ wsOutcome' = [ status |-> "pending", value |-> "" ]
     ELSE /\ wsOutcome' = [ status |-> "threw", value |-> "TypeError" ]
          /\ UNCHANGED wsPc
  /\ UNCHANGED << wsInitialized, wsAvailableWallets, wsResult,
                  wsCurrentWallet, wsNetwork, wsStored, wsProvider,
                  wsListeners >>
  /\ UNCHANGED notWallet

\* signBitcoinTransaction's request settles
SignSettles(ok) ==
  /\ wsPc = "sign"
  /\ wsPc' = "idle"
  /\ wsOutcome' = IF ok THEN [ status |-> "returned", value |-> "hex" ]
                         ELSE [ status |-> "threw",
                                value |-> "Bitcoin signing failed" ]
  /\ wsNotified' = NoCalls
  /\ UNCHANGED << wsInitialized, wsAvailableWallets, wsResult, wsCall,
                  wsCurrentWallet, wsNetwork, wsStored, wsProvider,
                  wsListeners >>
  /\ UNCHANGED notWallet

(* ------------------------- deploy-contract.sh -------------------------- *)
\* the machines the script may run on: which tools are found, how cargo, the
\* charms CLI and npm end, and what the deploy command prints
DeployEnvs ==
  [ rustc : BOOLEAN, cargo : BOOLEAN, node : BOOLEAN,
    charms : {"installed", "installable", "missing"},
    build : {"ok", "fails", "noWasm"},
    abi : BOOLEAN,
    key : {"set", "generated", "fails"},
    deploy : {"address", "empty", "null", "notJson", "fails"},
    manufacturer : BOOLEAN,
    init : BOOLEAN,
    webapp : BOOLEAN ]

\* exit, and the exit that set -e makes when a command fails
Exit(status) ==
  /\ dpPc' = "exited"
  /\ dpStatus' = status

\* main calls the function at which the script stands
Calls(function) ==
  /\ dpPc = function
  /\ dpSteps' = Append(dpSteps, function)

check_prerequisites ==
  /\ Calls("check_prerequisites")
  /\ IF /\ dpEnv.rustc /\ dpEnv.cargo /\ dpEnv.node
        /\ dpEnv.charms # "missing"
     THEN dpPc' = "build_contract" /\ UNCHANGED dpStatus
     ELSE Exit(1)
  /\ UNCHANGED << dpEnv, dpEnvFile, dpAddress, dpInitialized, dpComplete >>
  /\ UNCHANGED notDeploy

\* a failing cargo build ends the script under set -e, before the test of $?
build_contract ==
  /\ Calls("build_contract")
  /\ IF dpEnv.build = "ok"
     THEN dpPc' = "generate_metadata" /\ UNCHANGED dpStatus
     ELSE Exit(1)
  /\ UNCHANGED << dpEnv, dpEnvFile, dpAddress, dpInitialized, dpComplete >>
  /\ UNCHANGED notDeploy

generate_metadata ==
  /\ Calls("generate_metadata")
  /\ IF dpEnv.abi
     THEN dpPc' = "deploy_to_testnet" /\ UNCHANGED dpStatus
     ELSE Exit(1)
  /\ UNCHANGED << dpEnv, dpEnvFile, dpAddress, dpInitialized, dpComplete >>
  /\ UNCHANGED notDeploy

\* jq -r '.contractAddress' on what the deploy command printed: a missing
\* field prints null, no input prints nothing, other text is an error
jq(output) ==
  CASE output = "address" -> [ ok |-> TRUE, text |-> "bc1qcontract" ]
    [] output = "null" -> [ ok |-> TRUE, text |-> "null" ]
    [] output = "empty" -> [ ok |-> TRUE, text |-> "" ]
    [] output = "notJson" -> [ ok |-> FALSE, text |-> "" ]

\* initialize_contract: the call of init, ending the script when it fails
initialize_contract ==
  IF dpEnv.init
  THEN /\ dpInitialized' = TRUE
       /\ dpPc' = "run_tests"
       /\ UNCHANGED dpStatus
  ELSE /\ Exit(1)
       /\ UNCHANGED dpInitialized

\* deploy_to_testnet going on with whatever address jq printed
deploy_to_testnetUnchecked ==
  /\ Calls("deploy_to_testnet")
  /\ IF dpEnv.key = "fails" \/ dpEnv.deploy = "fails" \/ ~jq(dpEnv.deploy).ok
     THEN /\ Exit(1)
          /\ UNCHANGED << dpEnvFile, dpAddress, dpInitialized >>
     ELSE /\ dpAddress' = jq(dpEnv.deploy).text
          /\ dpEnvFile' = TRUE
          /\ IF dpEnv.manufacturer
             THEN initialize_contract
             ELSE /\ dpPc' = "run_tests"
                  /\ UNCHANGED << dpStatus, dpInitialized >>
  /\ UNCHANGED << dpEnv, dpComplete >>
  /\ UNCHANGED notDeploy

\* deploy_to_testnet with update_env_file and initialize_contract: the key,
\* the deploy command, the parse of its output and the test of the address,
\* then the write of .env and, with $MANUFACTURER_ADDRESS set, the init
deploy_to_testnet ==
  /\ Calls("deploy_to_testnet")
  /\ IF dpEnv.key = "fails" \/ dpEnv.deploy = "fails" \/ ~jq(dpEnv.deploy).ok
     THEN /\ Exit(1)
          /\ UNCHANGED << dpEnvFile, dpAddress, dpInitialized >>
     ELSE /\ dpAddress' = jq(dpEnv.deploy).text
          /\ IF dpAddress' = "" \/ dpAddress' = "null"
             THEN /\ Exit(1)
                  /\ UNCHANGED << dpEnvFile, dpInitialized >>
             ELSE \* update_env_file
                  /\ dpEnvFile' = TRUE
                  /\ IF dpEnv.manufacturer
                     THEN initialize_contract
                     ELSE /\ dpPc' = "run_tests"
                          /\ UNCHANGED << dpStatus, dpInitialized >>
  /\ UNCHANGED << dpEnv, dpComplete >>
  /\ UNCHANGED notDeploy

\* run_tests and the end of main: a failing query or npm build only warns,
\* a missing webapp directory ends the script at cd
run_tests ==
  /\ Calls("run_tests")
  /\ IF dpEnv.webapp
     THEN /\ dpComplete' = TRUE
          /\ Exit(0)
     ELSE /\ Exit(1)
          /\ UNCHANGED dpComplete
  /\ UNCHANGED << dpEnv, dpEnvFile, dpAddress, dpInitialized >>
  /\ UNCHANGED notDeploy

(* -------------------------- specifications ---------------------------- *)
\* the token lifecycle: purchases at the pre-filled retailer address, burns,
\* and the passing of days
Next ==
  \/ DismissAlert
  \/ DOMContentLoaded
  \/ \E p \in Catalogue : openPurchaseModal(p)
  \/ closeModal
  \/ sendPayment
  \/ \E i \in 1..MaxTimers : VerifyTimer(i)
  \/ \E i \in 1..MaxTimers : ProcessingTimer(i)
  \/ \E i \in 1..MaxTimers : SellerTimer(i)
  \/ \E n \in TokenNumbers : confirmReceipt(n)
  \/ \E id \in TokenIds, c \in BOOLEAN : burnToken(id, c)
  \/ Tick(TickDays)

Init ==
  /\ AppInit /\ CardInit /\ ScrollsInit /\ CircuitInit /\ WalletInit
  /\ CacheInit /\ DeployInit

Spec == Init /\ [][Next]_vars

\* the payment step of either page: purchases in which the user may retype
\* the retailer address, on one day and with one token number drawn;
\* purchases through the product card
NextPay ==
  \/ DOMContentLoaded
  \/ \E p \in Catalogue : openPurchaseModal(p)
  \/ \E a \in RetailerInputs : EditRetailerAddress(a)
  \/ closeModal
  \/ sendPayment
  \/ \E i \in 1..MaxTimers : VerifyTimer(i)
  \/ \E i \in 1..MaxTimers : ProcessingTimer(i)
  \/ \E i \in 1..MaxTimers : SellerTimer(i)
  \/ confirmReceipt(1)
  \/ WalletConnects
  \/ WalletDisconnects
  \/ \E a \in {"0xU...rah5r", "0xU...f4k3"} : handlePurchase(a)
  \/ \E o \in {"trusted", "untrusted", "throws"} : CardVerifyRetailer(o)
  \/ \E ok \in BOOLEAN : CardCreatePayment(ok)
  \/ \E ok \in BOOLEAN : CardSign(ok)
  \/ \E ok \in BOOLEAN : CardSubmit(ok)
  \/ \E ok \in BOOLEAN : CardWaitTransfer(ok)
  \/ \E ok \in BOOLEAN : CardGetToken(ok)

SpecPay == Init /\ [][NextPay]_vars

\* the ledger under the operations of the demo page that write appState:
\* the token lifecycle and the explorer's privacy toggle
NextLedger ==
  \/ Next
  \/ togglePrivacy

SpecLedger == Init /\ [][NextLedger]_vars

\* the token lifecycle with token look-ups
NextTokens ==
  \/ Next
  \/ \E id \in TokenIds : showTokenDetails(id)

SpecTokens == Init /\ [][NextTokens]_vars

\* the API client: supply-chain queries with and without the privacy shield
NextScrolls ==
  \/ configure
  \/ \E privacy \in BOOLEAN : getSupplyChainHistory(privacy)
  \/ getStatus
  \/ \E outcome \in HttpOutcomes : HttpSettles(outcome)
  \/ \E proverOk \in BOOLEAN : ProverSettles(proverOk)

InitScrolls ==
  AppInit /\ CardInit /\ ScrollsServed /\ CircuitInit /\ WalletInit
  /\ CacheInit /\ DeployInit

SpecScrolls == InitScrolls /\ [][NextScrolls]_vars

\* the API client answering for one of the histories whose views are compared
InitView ==
  AppInit /\ CardInit /\ ScrollsViewed /\ CircuitInit /\ WalletInit
  /\ CacheInit /\ DeployInit

SpecView == InitView /\ [][NextScrolls]_vars

\* the API client with its timers: a pending request is settled within the
\* timeout the axios client was created with; nothing settles zk.generateProof
\* but the prover itself
SpecWait ==
  /\ InitView
  /\ [][NextScrolls]_vars
  /\ WF_vars(\E outcome \in HttpOutcomes : HttpSettles(outcome))

\* the circuit: witness generation for any input signals
NextCircuit == GenerateWitness

InitCircuit ==
  AppInit /\ CardInit /\ ScrollsInit /\ CircuitInputs /\ WalletInit
  /\ CacheInit /\ DeployInit

SpecCircuit == InitCircuit /\ [][NextCircuit]_vars

\* two products on the demo page, one of which costs most of the balance:
\* purchases with the pre-filled retailer address, modals closed and opened
\* while callbacks are pending
ShopCatalogue == {"fragrance", "energy"}

NextShop ==
  \/ DismissAlert
  \/ DOMContentLoaded
  \/ \E p \in ShopCatalogue : openPurchaseModal(p)
  \/ closeModal
  \/ sendPayment
  \/ \E i \in 1..MaxTimers : VerifyTimer(i)
  \/ \E i \in 1..MaxTimers : ProcessingTimer(i)
  \/ \E i \in 1..MaxTimers : SellerTimer(i)
  \/ confirmReceipt(1)

SpecShop == Init /\ [][NextShop]_vars

\* the cached methods of the API client as time passes
NextCache ==
  \/ configure
  \/ \E q \in Queries : queryCharms(q)
  \/ \E id \in CharmIds, zk \in BOOLEAN : getCharmToken(id, TRUE, zk)
  \/ \E outcome \in HttpOutcomes, data \in ServerData :
       FetchSettles(outcome, data)
  \/ clearCache
  \/ ClockTicks

SpecCache == Init /\ [][NextCache]_vars

\* one run of the deploy script on any machine
NextDeploy ==
  \/ check_prerequisites
  \/ build_contract
  \/ generate_metadata
  \/ deploy_to_testnet
  \/ run_tests

InitDeploy ==
  /\ AppInit /\ CardInit /\ ScrollsInit /\ CircuitInit /\ WalletInit
  /\ CacheInit
  /\ DeployStart
  /\ dpEnv \in DeployEnvs

SpecDeploy == InitDeploy /\ [][NextDeploy]_vars

\* the wallet service: initialize with any outcome of the detection
NextWallet ==
  \/ initialize
  \/ \E d \in Detections : DetectSettles(d)

SpecWallet == Init /\ [][NextWallet]_vars

\* the wallet session: connecting, switching, signing and disconnecting on a
\* page with listeners, with the wallet extensions on any network
SessionDetections ==
  { [ resolved |-> TRUE, wallets |-> << "hiro" >> ],
    [ resolved |-> FALSE, wallets |-> << >> ] }

NextSession ==
  \/ \E l \in Listeners : addWalletListener(l)
  \/ \E l \in Listeners : removeWalletListener(l)
  \/ \E d \in SessionDetections : DetectSettles(d)
  \/ \E walletType \in WalletTypes \cup {"ledger"} : connectWallet(walletType)
  \/ \E o \in ProviderOutcomes, storeOk \in BOOLEAN : ConnectSettles(o, storeOk)
  \/ disconnectWallet
  \/ \E network \in Networks : switchNetwork(network)
  \/ \E ok \in BOOLEAN : SwitchSettles(ok)
  \/ signTransaction
  \/ \E ok \in BOOLEAN : SignSettles(ok)

InitSession ==
  /\ AppInit /\ CardInit /\ ScrollsInit /\ CircuitInit /\ CacheInit
  /\ DeployInit
  /\ WalletServiceInit
  /\ wsProvider \in Providers

SpecSession == InitSession /\ [][NextSession]_vars

(* ---------------------------- properties ------------------------------- *)
Prepended(tx) ==
  /\ Len(transactions') = Len(transactions) + 1
  /\ Tail(transactions') = transactions
  /\ transactionCounter' = transactionCounter + 1
  /\ Head(transactions') = [ id |-> transactionCounter ] @@ tx

\* C1 - burn lock: a burnToken call made before the lock date of the token it
\* finds (purchase day + 14) leaves ownedTokens and the ledger as they were;
\* made on the lock date or later, and confirmed, it removes that token and
\* records exactly one burn transaction for it.
BurnLockEnforced ==
  [][ \A id \in TokenIds, c \in BOOLEAN :
        burnToken(id, c) =>
          LET i == findIndex(ownedTokens, id)
          IN i # 0 =>
               /\ now < ownedTokens[i].burnLockDate =>
                    UNCHANGED << ownedTokens, transactions, transactionCounter >>
               /\ (now >= ownedTokens[i].burnLockDate /\ c) =>
                    /\ ownedTokens' = RemoveAt(ownedTokens, i)
                    /\ Prepended(Tx("burn", ownedTokens[i].product,
                                    BuyerAddress, BurnAddress, id, NULL)) ]_vars

\* a token was burned on the very day its lock ended
BurnedAtLockDate ==
  /\ alertDialog = "burned"
  /\ now = BurnLockDays
  /\ Head(transactions).type = "burn"

BurnedIds == { transactions[k].tokenId :
                 k \in { j \in 1..Len(transactions) : transactions[j].type = "burn" } }

\* C2 - burned is terminal: once a burn is in the ledger for a token id, no
\* later transaction is recorded for that id, and burnToken on that id changes
\* neither ownedTokens nor the ledger.
BurnedIsTerminal ==
  [][ /\ Len(transactions') > Len(transactions) =>
           Head(transactions').tokenId \notin BurnedIds
      /\ \A id \in BurnedIds, c \in BOOLEAN :
           burnToken(id, c) =>
             UNCHANGED << ownedTokens, transactions, transactionCounter >> ]_vars

\* C3 - token ids are globally unique: the id confirmReceipt assigns is the id
\* of no token in ownedTokens and of no transaction already in the ledger.
TokenIdsUnique ==
  [][ \A n \in TokenNumbers :
        confirmReceipt(n) =>
          LET id == TokenIdOf(currentProduct, n)
          IN /\ \A i \in 1..Len(ownedTokens) : ownedTokens[i].id # id
             /\ \A k \in 1..Len(transactions) : transactions[k].tokenId # id ]_vars

\* C4 - an untrusted retailer address is rejected with no state change:
\* verifyRetailerAddress reports the error, records nothing, schedules no
\* continuation and leaves balance and ownedTokens alone; handlePurchase
\* stops before a payment transaction is created.
UntrustedRejected ==
  [][ /\ \A i \in 1..MaxTimers :
           (VerifyTimer(i) /\ timers[i].address \notin trustedAddresses) =>
             /\ addressAlert' = "error"
             /\ timers' = RemoveAt(timers, i)
             /\ UNCHANGED << transactions, transactionCounter, balance,
                             ownedTokens, confirmBtnDisplayed >>
      /\ CardVerifyRetailer("untrusted") =>
           /\ cardLog' = cardLog
           /\ cardPc' = "idle"
           /\ cardError' = "Retailer not in trusted directory" ]_vars

\* the untrusted address has just been reported, with the seeded ledger intact
UntrustedReported ==
  /\ addressAlert = "error"
  /\ ~sendBtnDisabled
  /\ timers = << >>
  /\ transactionCounter = 8

\* C5 - retailer trust is per category: a payment for a product is recorded
\* only to the retailer address trusted for that product's category.
PaymentsToCategoryRetailer ==
  \A k \in 1..Len(transactions) :
    transactions[k].type = "payment" =>
      \E p \in ProductTypes :
        /\ productInfo[p].name = transactions[k].product
        /\ productInfo[p].retailerAddress = transactions[k].to

ShieldApplied ==
  /\ scResult.status = "returned"
  /\ scCall.privacy
  /\ scCall.proverOk
  /\ Truthy(scServer.history)

PublicData == scResult.data.history.v[kPublicData]

\* the field names above that contain a word of the sensitive set, whatever
\* the case of the letters
SensitiveNames == { kAddress, kPrivateKey, kShipping }

RECURSIVE HasSensitiveName(_)
HasSensitiveName(x) ==
  IF x.t = "array" THEN \E i \in 1..Len(x.v) : HasSensitiveName(x.v[i])
  ELSE IF x.t = "object"
  THEN \E k \in DOMAIN x.v : k \in SensitiveNames \/ HasSensitiveName(x.v[k])
  ELSE FALSE

RECURSIVE SensitiveValuesRedacted(_)
SensitiveValuesRedacted(x) ==
  IF x.t = "array" THEN \A i \in 1..Len(x.v) : SensitiveValuesRedacted(x.v[i])
  ELSE IF x.t = "object"
  THEN \A k \in DOMAIN x.v :
         IF k \in SensitiveNames THEN x.v[k] = JStr("[REDACTED]")
         ELSE SensitiveValuesRedacted(x.v[k])
  ELSE TRUE

\* C7 as stated - publicData contains no field whose name matches the
\* sensitive set, at any depth.
NoSensitiveFieldNames == ShieldApplied => ~HasSensitiveName(PublicData)

\* C7 as amended - publicData contains no field whose name matches the
\* sensitive set with a value other than the marker '[REDACTED]', at any depth.
NoSensitiveFieldValues == ShieldApplied => SensitiveValuesRedacted(PublicData)

\* publicData keeps a sensitive-named field, holding the marker
SensitiveNameKept == ShieldApplied /\ HasSensitiveName(PublicData)

RECURSIVE RedactsAndPreserves(_, _)
\* out is src with the value of every sensitive-named field replaced by the
\* marker and everything else kept
RedactsAndPreserves(src, out) ==
  IF src.t = "array"
  THEN /\ out.t = "array"
       /\ Len(out.v) = Len(src.v)
       /\ \A i \in 1..Len(src.v) : RedactsAndPreserves(src.v[i], out.v[i])
  ELSE IF src.t = "object"
  THEN /\ out.t = "object"
       /\ DOMAIN out.v = DOMAIN src.v
       /\ \A k \in DOMAIN src.v :
            IF k \in SensitiveNames THEN out.v[k] = JStr("[REDACTED]")
            ELSE RedactsAndPreserves(src.v[k], out.v[k])
  ELSE out = src

\* C8 - redaction replaces and preserves: in publicData every field whose name
\* matches the sensitive set holds '[REDACTED]', and every other field (type,
\* timestamp, category) holds the value it has in the source, in nested
\* objects and arrays alike.
RedactionReplacesAndPreserves ==
  ShieldApplied => RedactsAndPreserves(scServer.history, PublicData)

\* an event with a type and a private key went through the shield
TypeKeptKeyRedacted ==
  /\ ShieldApplied
  /\ \E i \in 1..Len(scServer.history.v) :
       /\ scServer.history.v[i] =
            JObj((kType :> JStr("transfer")) @@ (kPrivateKey :> JStr("a")))
       /\ PublicData.v[i] =
            JObj((kType :> JStr("transfer")) @@ (kPrivateKey :> JStr("[REDACTED]")))

\* C9 - when privacy is requested and the prover fails, the response that
\* carries the plain history is flagged privacy_applied = false.
FallbackFlagged ==
  ( /\ scResult.status = "returned"
    /\ scCall.privacy
    /\ ~scCall.proverOk
    /\ Truthy(scServer.history) )
  => scResult.data.privacy_applied = JBool(FALSE)

\* C10 - with privacy requested, the returned history is an array of entries
\* whether the proof succeeded or not, and when the shield was applied its
\* first entry has a proof property.
HistoryIsArray ==
  ( /\ scResult.status = "returned"
    /\ scCall.privacy
    /\ scServer.history.t = "array" )
  => /\ scResult.data.history.t = "array"
     /\ scCall.proverOk =>
          /\ scResult.data.history.v[1].t = "object"
          /\ kProof \in DOMAIN scResult.data.history.v[1].v

RECURSIVE SameButSensitive(_, _)
\* a and b differ at most in the values of sensitive-named fields
SameButSensitive(a, b) ==
  IF a.t = "array"
  THEN /\ b.t = "array"
       /\ Len(b.v) = Len(a.v)
       /\ \A i \in 1..Len(a.v) : SameButSensitive(a.v[i], b.v[i])
  ELSE IF a.t = "object"
  THEN /\ b.t = "object"
       /\ DOMAIN b.v = DOMAIN a.v
       /\ \A k \in DOMAIN a.v :
            k \in SensitiveNames \/ SameButSensitive(a.v[k], b.v[k])
  ELSE b = a

\* the histories that differ from the served one in sensitive values only
Lookalikes ==
  { h \in ViewHistories : h # scServer.history /\ SameButSensitive(scServer.history, h) }

\* C11 - noninterference of the disclosed view: the publicData returned for
\* the served history is the publicData the shield produces for every history
\* that differs from it only in the values of sensitive-named fields.
DisclosedViewNoninterference ==
  ShieldApplied =>
    \A h \in Lookalikes :
      applyPrivacyShield(h, TRUE).v[kPublicData] = PublicData

\* the shield was applied to a history that has a lookalike with another
\* value nested under a sensitive name
LookalikeDisclosed ==
  /\ ShieldApplied
  /\ \E h \in Lookalikes : \E i \in 1..Len(h.v) :
       /\ h.v[i] = JObj(kAddress :> JObj(kPrivateKey :> JNum(7)))
       /\ scServer.history.v[i] = JObj(kAddress :> JObj(kType :> JNum(7)))

\* C12 - tampered inputs are not valid: a witness whose isValid output is 1
\* has a productId and a mintTimestamp that hash to the public
\* verificationHash.
TamperedNotValid ==
  (cvWitness.status = "computed" /\ cvWitness.isValid = 1)
  => cvInput.verificationHash = Sha256(cvInput.productId, cvInput.mintTimestamp)

InWarranty ==
  IF cvInput.currentTimestamp <= cvInput.mintTimestamp + cvInput.warrantyPeriod
  THEN 1 ELSE 0

\* C13 as stated - for timestamps and warranty periods within the
\* comparator's range the circuit yields isInWarranty, which is 1 exactly when
\* currentTimestamp <= mintTimestamp + warrantyPeriod and 0 otherwise.
WarrantyVerdict ==
  cvWitness.status # "none" =>
    /\ cvWitness.status = "computed"
    /\ cvWitness.isInWarranty = InWarranty

\* C13 as amended - the same with currentTimestamp and the expiry
\* mintTimestamp + warrantyPeriod within the comparator's range.
WarrantyVerdictInRange ==
  ( /\ cvWitness.status # "none"
    /\ cvInput.mintTimestamp + cvInput.warrantyPeriod \in Comparable )
  => /\ cvWitness.status = "computed"
     /\ cvWitness.isInWarranty = InWarranty

\* the verdict at the boundary instant: now is the expiry, the largest
\* value of the range
BoundaryInWarranty ==
  /\ cvWitness.status = "computed"
  /\ cvInput.currentTimestamp = Pow2(CmpBits) - 1
  /\ cvInput.mintTimestamp + cvInput.warrantyPeriod = cvInput.currentTimestamp
  /\ cvInput.warrantyPeriod > 0
  /\ cvWitness.isInWarranty = 1

\* C14 - at most one purchase is in flight at a time: while the callbacks of
\* one sendPayment-to-confirmReceipt flow are pending, no second flow has a
\* callback pending (a second attempt fails at once).
OnePurchaseInFlight == Len(timers) <= 1

\* C15 - the ledger is append-only with monotonic ids: every step of the page
\* (purchase, burn, privacy toggle with its explorer refresh) keeps the
\* transactions recorded before it, unmodified and in order; ids are unique
\* and strictly increase in recording order; transactionCounter is the number
\* of recorded transactions.
LedgerAppendOnly ==
  [][ LET n  == Len(transactions)
          n2 == Len(transactions')
      IN /\ n2 >= n
         /\ SubSeq(transactions', n2 - n + 1, n2) = transactions
         /\ \A k \in 1..(n2 - 1) : transactions'[k].id > transactions'[k + 1].id
         /\ transactionCounter' = n2 ]_vars

\* a purchase and a burn are in the ledger and the explorer shows it masked
LedgerAfterBurnMasked ==
  /\ privacyEnabled
  /\ transactionCounter >= 11
  /\ \E k \in 1..Len(transactions) : transactions[k].type = "burn"

\* C16 - burn is a logical deletion: a token whose burn is in the ledger can
\* still be looked up, showTokenDetails shows its record.
BurnedStillQueryable ==
  [][ \A id \in BurnedIds :
        showTokenDetails(id) => alertDialog' = "details" ]_vars

\* the payments recorded for a product, and the transfers of it to the buyer
PaymentsFor(p) ==
  { k \in 1..Len(transactions) :
      /\ transactions[k].type = "payment"
      /\ transactions[k].product = productInfo[p].name }

DeliveriesOf(p) ==
  { k \in 1..Len(transactions) :
      /\ transactions[k].type = "transfer"
      /\ transactions[k].to = BuyerAddress
      /\ transactions[k].product = productInfo[p].name }

\* C17 - no partial purchase: once no purchase is under way (the modal is
\* closed and no callback is pending), every payment in the ledger has its
\* token transfer to the buyer, which confirmReceipt records together with
\* the balance deduction; a purchase that was abandoned has left no payment
\* behind.
NoPartialPurchase ==
  (~purchaseModalActive /\ timers = << >>) =>
    \A p \in Catalogue :
      Cardinality(PaymentsFor(p)) = Cardinality(DeliveriesOf(p))

\* C18 - no operation blocks indefinitely: every call of the API client that
\* is waiting for an external service eventually ends, by a result or by a
\* failure, also when the service never responds.
CallsTerminate == (scPc # "idle") ~> (scPc = "idle")

\* the last call was a getStatus and it has ended
StatusCalled == scCall.made /\ scCall.method = "getStatus" /\ scPc = "idle"

InitializeVerdict ==
  [][ \A d \in Detections :
        DetectSettles(d) =>
          /\ wsResult'.status = "returned"
          /\ wsResult'.value = (d.resolved /\ Len(d.wallets) > 0)
          /\ wsResult'.value =>
               /\ wsInitialized'
               /\ wsAvailableWallets'.t = "array"
               /\ wsAvailableWallets'.v = d.wallets
               /\ Len(wsAvailableWallets'.v) > 0
          /\ ~wsResult'.value =>
               UNCHANGED << wsInitialized, wsAvailableWallets >> ]_vars

\* initialize has returned false on a service that no detection initialized
InitializeRefused ==
  /\ wsResult = [ status |-> "returned", value |-> FALSE ]
  /\ ~wsInitialized
  /\ wsAvailableWallets.t = "undefined"

\* a listener was called with null by the latest step
ToldNull(l) == wsNotified[l] = [ called |-> TRUE, info |-> [ isNull |-> TRUE ] ]

\* C21 - after disconnectWallet(), from any prior state, isConnected() is
\* false, getWalletInfo() is null, the stored session is removed and every
\* registered listener has been called with null; without a wallet
\* signTransaction and switchNetwork throw 'No wallet connected'.
DisconnectClearsSession ==
  [][ /\ disconnectWallet =>
           /\ ~isConnected'
           /\ getWalletInfo(wsCurrentWallet').isNull
           /\ ~wsStored'.present
           /\ \A l \in wsListeners : ToldNull(l)'
      /\ (~isConnected /\ (signTransaction
                             \/ \E network \in Networks : switchNetwork(network))) =>
           /\ wsOutcome' = [ status |-> "threw", value |-> "No wallet connected" ]
           /\ wsPc' = "idle" ]_vars

\* connectWallet returned a wallet, and disconnectWallet has just told a
\* registered listener null
DisconnectedAfterConnect ==
  /\ wsCall.op = "connectWallet"
  /\ wsOutcome = [ status |-> "returned", value |-> "wallet" ]
  /\ ~isConnected
  /\ ~wsStored.present
  /\ \E l \in wsListeners : ToldNull(l)

\* C27 - a connectWallet that throws changes nothing: currentWallet and the
\* stored session are as before and no listener is called.
FailedConnectChangesNothing ==
  [][ \A o \in ProviderOutcomes, storeOk \in BOOLEAN :
        (ConnectSettles(o, storeOk) /\ wsOutcome'.status = "threw") =>
          /\ UNCHANGED << wsCurrentWallet, wsStored >>
          /\ wsNotified' = NoCalls ]_vars

\* the wallet extension of the connected wallet is on the network asked for
providerSwitched == providerNetwork(wsCurrentWallet.type) = wsCall.arg

\* C28 - between calls a stored session exists exactly when a wallet is
\* connected, and its type, address and network are those getWalletInfo()
\* reports; a switchNetwork that returns true leaves the wallet extension on
\* the requested network.
SessionMatchesWallet ==
  /\ [](wsPc = "idle" =>
          /\ wsStored.present <=> isConnected
          /\ isConnected /\ wsStored.present =>
               LET info == getWalletInfo(wsCurrentWallet)
               IN /\ wsStored.type = info.type
                  /\ wsStored.address = info.address
                  /\ wsStored.network = info.network)
  /\ [][ (/\ \/ \E network \in Networks : switchNetwork(network)
              \/ \E ok \in BOOLEAN : SwitchSettles(ok)
           /\ wsOutcome'.status = "returned") =>
            providerSwitched' ]_vars

\* the external calls of one purchase, in the order handlePurchase makes them
PurchaseSteps ==
  << "createPaymentTransaction", "signTransaction", "submitTransaction",
     "tokenTransfer", "onPurchaseComplete" >>

\* the last n calls handlePurchase has made
LastCalls(n) == SubSeq(cardLog, Len(cardLog) - n + 1, Len(cardLog))

PaidBefore(p, k) ==
  { j \in PaymentsFor(p) :
      /\ j > k
      /\ transactions[j].to \in trustedAddresses
      /\ transactions[j].amount = productInfo[p].price }

\* C24 - every token delivered was paid for: each transfer to the buyer that
\* confirmReceipt records has a payment of its own recorded before it, for
\* the same product at its price to a trusted retailer address.
DeliveredWasPaid ==
  \A p \in ProductTypes :
    \A k \in DeliveriesOf(p) :
      Cardinality(PaidBefore(p, k))
        >= Cardinality({ d \in DeliveriesOf(p) : d >= k })

CachedMethods == {"queryCharms", "getCharmToken"}

\* C25 - cache freshness: queryCharms and getCharmToken return cached data
\* without a request only when an entry for the identical key was stored less
\* than cacheTTL (60000 ms) earlier; at an age of cacheTTL or more, and with
\* the cache cleared, the call issues a request, and the response is stored
\* under the key with the time of its arrival.
CacheFreshness ==
  [][ /\ \A m \in CachedMethods, key \in CacheKeys :
           Fetch(m, key) =>
             IF scCache[key].present
                /\ scClock - scCache[key].timestamp < cacheTTL
             THEN /\ scFetched' = [ status |-> "returned",
                                    data |-> scCache[key].data ]
                  /\ ~scFetch'.requested
             ELSE /\ scFetched'.status # "returned"
                  /\ scClient => scFetch'.requested /\ scFetch'.pc = "http"
      /\ clearCache => \A key \in CacheKeys : ~scCache'[key].present
      /\ \A data \in ServerData :
           FetchSettles("ok", data) =>
             /\ scFetched' = [ status |-> "returned", data |-> data ]
             /\ scCache'[scFetch.key] =
                  [ present |-> TRUE, data |-> data, timestamp |-> scClock ] ]_vars

\* a request is under way for a key whose entry has reached the age of
\* cacheTTL
RefetchAtTTL ==
  /\ scFetch.pc = "http"
  /\ scCache[scFetch.key].present
  /\ scClock - scCache[scFetch.key].timestamp = cacheTTL

\* C26 - a failed request never touches the cache: the call throws the Error
\* handleError builds and the cache is as before; only the response of a
\* successful request is stored.
FailedRequestLeavesCache ==
  [][ /\ \A outcome \in HttpOutcomes \ {"ok"}, data \in ServerData :
           FetchSettles(outcome, data) =>
             /\ scFetched' = [ status |-> "threw",
                               data |-> handleError(outcome) ]
             /\ scCache' = scCache
      /\ \A m \in CachedMethods, key \in CacheKeys :
           (Fetch(m, key) /\ ~scClient /\ ~scCache[key].present) =>
             /\ scFetched' = [ status |-> "threw",
                               data |-> handleError("noClient") ]
             /\ scCache' = scCache
      /\ scCache' # scCache =>
           \/ clearCache
           \/ \E data \in ServerData : FetchSettles("ok", data) ]_vars

\* a request for a key with an expired entry has failed, and the entry is
\* still there
FailedWithEntryKept ==
  /\ scFetch.pc = "idle"
  /\ scFetch.requested
  /\ scFetched.status = "threw"
  /\ scCache[scFetch.key].present

RECURSIVE SameShape(_, _)
\* out has the keys, the nesting and the array lengths of src, except below
\* the fields that hold the marker
SameShape(src, out) ==
  IF src.t = "array"
  THEN /\ out.t = "array"
       /\ Len(out.v) = Len(src.v)
       /\ \A i \in 1..Len(src.v) : SameShape(src.v[i], out.v[i])
  ELSE IF src.t = "object"
  THEN /\ out.t = "object"
       /\ DOMAIN out.v = DOMAIN src.v
       /\ \A k \in DOMAIN src.v :
            out.v[k] = Redacted \/ SameShape(src.v[k], out.v[k])
  ELSE out.t \notin {"array", "object"}

DeployOrder ==
  << "check_prerequisites", "build_contract", "generate_metadata",
     "deploy_to_testnet", "run_tests" >>

\* on this machine a step up to the parse of the contract address fails
EarlierStepFails ==
  \/ ~dpEnv.rustc \/ ~dpEnv.cargo \/ ~dpEnv.node \/ dpEnv.charms = "missing"
  \/ dpEnv.build # "ok"
  \/ ~dpEnv.abi
  \/ dpEnv.key = "fails"
  \/ dpEnv.deploy # "address"

\* C30 - deploy-contract.sh writes .env, initializes the contract and prints
\* 'Deployment Complete!' only after the deploy command succeeded and gave a
\* contractAddress that is neither empty nor null; when a step before that
\* fails the script ends with a failure status and .env is not written; the
\* steps run in the order prerequisites, build, metadata, deploy, tests.
EnvWrittenAfterDeploy ==
  /\ (dpEnvFile \/ dpInitialized \/ dpComplete) =>
       /\ dpEnv.deploy = "address"
       /\ dpAddress \notin {"", "null"}
       /\ Len(dpSteps) >= 4
       /\ dpSteps[4] = "deploy_to_testnet"
  /\ EarlierStepFails =>
       /\ ~dpEnvFile /\ ~dpInitialized /\ ~dpComplete
       /\ dpPc = "exited" => dpStatus # 0
       /\ dpPc # "run_tests"
  /\ dpComplete => dpSteps = DeployOrder /\ dpStatus = 0
  /\ dpSteps = SubSeq(DeployOrder, 1, Len(dpSteps))

\* the script has run to its end on a machine where every step succeeds
DeploymentCompleted ==
  /\ dpComplete
  /\ dpEnvFile
  /\ dpInitialized
  /\ dpSteps = DeployOrder
  /\ dpPc = "exited"
  /\ dpStatus = 0

====
